---- MODULE Spec2Model ----
(***************************************************************************)
(* Signal-to-trade pipeline of the QXBroker auto trading bot:              *)
(*   RiskManager      (src/trading/risk_manager.py)                        *)
(*   MartingaleSequence, RiskMetrics, Trade (src/core/models.py)           *)
(*   TradeExecutor    (src/trading/trade_executor.py)                      *)
(*   QXBrokerClient   (src/brokers/qxbroker_client.py)                     *)
(*                                                                         *)
(* Five specifications:                                                    *)
(*   SpecRisk       : the RiskManager's ledger under any sequence of calls *)
(*                    of its public methods;                               *)
(*   SpecMartingale : the RiskManager's recovery sequences under any       *)
(*                    sequence of calls of their public methods;           *)
(*   SpecSize       : calculate_position_size for fixed inputs while the   *)
(*                    ledger counts losses;                                *)
(*   SpecClose      : the recovery sequences with complete_sequence        *)
(*                    called on them directly;                             *)
(*   Spec           : the running pipeline, one action per atomic segment  *)
(*                    of the asyncio coroutines (code between two awaits   *)
(*                    that really suspend: venue calls and sleeps).        *)
(*                                                                         *)
(* Money is counted in 1/10000 of a dollar so that the 0.9^n damping of    *)
(* calculate_position_size stays exact for the streaks admission lets      *)
(* through.  The clock `now` is in seconds, the date `today` is a day      *)
(* number whose value modulo 7 is datetime.weekday() (0 = Monday).         *)
(***************************************************************************)
EXTENDS Integers, Sequences, FiniteSets, TLC

(***************************************************************************)
(* Configuration (config/settings.py).  Every value is read from the       *)
(* environment; the values below are one configuration: the defaults for   *)
(* the martingale and risk-percentage settings, and small ceilings for     *)
(* MAX_CONCURRENT_TRADES and MAX_DAILY_LOSS so that the ceilings are hit.  *)
(***************************************************************************)
Dollar == 10^4

min_trade_amount == 1 * Dollar
max_trade_amount == 100 * Dollar
martingale_enabled == TRUE
martingale_multiplier == 2
max_martingale_steps == 3
max_daily_loss == 20 * Dollar
max_concurrent_trades == 2
risk_percentage == 2

\* Hard-coded thresholds of the risk manager and the scheduler.
ConsecutiveLossLimit == 5
EmergencyStopLosses == 10
ForceStopSentinel == 999
SettleBuffer == 10
NoAmount == 0

(***************************************************************************)
(* Bounds of the model.                                                    *)
(***************************************************************************)
MaxSignals == 2
MaxTime == 120
MaxDay == 5
MaxCalls == 5
MaxRecords == 3

MaxLosses == 6
\* intent amounts and balances handed to calculate_position_size: amounts
\* below, inside and above [min_trade_amount, max_trade_amount], balances
\* whose risk share lies below, inside and above it
SizeAmounts == {Dollar \div 2, 1 * Dollar, 10 * Dollar, 50 * Dollar,
                100 * Dollar, 150 * Dollar}
SizeBalances == {0, 40 * Dollar, 100 * Dollar, 1000 * Dollar, 10000 * Dollar}
Balances == {100 * Dollar, 1000 * Dollar}
\* balances handed to can_place_trade from outside: one below twice the intent
\* amount as well
AdmitBalances == Balances \cup {15 * Dollar}
Amounts == {10 * Dollar}
Durations == {60}
Assets == {"EURUSD"}
\* the direction is carried from the intent to the trade and never tested
Directions == {"call"}
TerminalStatus == {"won", "lost", "cancelled", "error"}
NoTime == 0 - 1
NoBalance == 0 - 1

Min(a, b) == IF a < b THEN a ELSE b
Max(a, b) == IF a > b THEN a ELSE b
Put(f, k, v) == [x \in (DOMAIN f) \cup {k} |-> IF x = k THEN v ELSE f[x]]
SeqToSet(s) == {s[i] : i \in 1..Len(s)}

VARIABLES
  risk_metrics, current_session, martingale_sequences, last_daily_reset,
  now, today,
  signal_queue, signals, pending_signals, active_trades, trades,
  is_running, auto_trading_enabled, stats,
  broker_active,
  dispatcher, promoter, monitor, exec,
  nextId, submitted, lastAdmit, amountLog, forceStopped, numRecorded,
  lastRecord, calc, reported,
  execCount, recordCount, lastLoss, overwritten, stopSeen

riskVars == <<risk_metrics, current_session, martingale_sequences, last_daily_reset>>
envVars == <<now, today>>
execVars == <<signal_queue, signals, pending_signals, active_trades, trades,
              is_running, auto_trading_enabled, stats, broker_active>>
taskVars == <<dispatcher, promoter, monitor, exec>>
riskHist == <<lastAdmit, amountLog, forceStopped, numRecorded, lastRecord, calc>>
pipeHist == <<nextId, submitted, reported, execCount, recordCount, lastLoss, overwritten,
             stopSeen>>
vars == <<riskVars, envVars, execVars, taskVars, riskHist, pipeHist>>

(***************************************************************************)
(* core/models.py                                                          *)
(***************************************************************************)
\* RiskMetrics(): total_trades_today and last_trade_time are written but
\* never read by any decision and are left out.
NewRiskMetrics ==
  [daily_loss |-> 0, daily_profit |-> 0, concurrent_trades |-> 0,
   consecutive_losses |-> 0, max_consecutive_losses |-> 0]

reset_daily_metrics(m) ==
  [m EXCEPT !.daily_loss = 0, !.daily_profit = 0, !.consecutive_losses = 0]

\* current_session = None
NoSession ==
  [present |-> FALSE, is_active |-> FALSE, total_trades |-> 0,
   winning_trades |-> 0, losing_trades |-> 0, total_profit_loss |-> 0]

\* TradingSession(balance_start=...): end_time is None, counters zero
NewSession ==
  [present |-> TRUE, is_active |-> TRUE, total_trades |-> 0,
   winning_trades |-> 0, losing_trades |-> 0, total_profit_loss |-> 0]

NewMartingaleSequence(seqId, sigId, base, maxSteps) ==
  [sequence_id |-> seqId, original_signal_id |-> sigId, current_step |-> 0,
   max_steps |-> maxSteps, base_amount |-> base, current_amount |-> base,
   total_invested |-> 0, trades |-> <<>>, is_complete |-> FALSE,
   final_result |-> "none"]

\* MartingaleSequence.next_step: raises ValueError (ok = FALSE) at the
\* ceiling, otherwise steps and returns base * multiplier ** step.
next_step_unguarded(seq, multiplier) ==
  LET step == seq.current_step + 1
      amt == seq.base_amount * (multiplier ^ step)
  IN [ok |-> TRUE, amount |-> amt,
      seq |-> [seq EXCEPT !.current_step = step, !.current_amount = amt]]

next_step_stale(seq, multiplier) ==
  IF seq.current_step >= seq.max_steps
  THEN [ok |-> FALSE, amount |-> NoAmount, seq |-> seq]
  ELSE LET step == seq.current_step + 1
           amt == seq.base_amount * (multiplier ^ seq.current_step)
       IN [ok |-> TRUE, amount |-> amt,
           seq |-> [seq EXCEPT !.current_step = step, !.current_amount = amt]]

next_step(seq, multiplier) ==
  IF seq.current_step >= seq.max_steps
  THEN [ok |-> FALSE, amount |-> NoAmount, seq |-> seq]
  ELSE LET step == seq.current_step + 1
           amt == seq.base_amount * (multiplier ^ step)
       IN [ok |-> TRUE, amount |-> amt,
           seq |-> [seq EXCEPT !.current_step = step, !.current_amount = amt]]

add_trade(seq, tradeId, amount) ==
  [seq EXCEPT !.trades = Append(@, tradeId), !.total_invested = @ + amount]

complete_sequence(seq, result) ==
  [seq EXCEPT !.is_complete = TRUE, !.final_result = result]

(***************************************************************************)
(* trading/risk_manager.py                                                 *)
(***************************************************************************)
Weekday(day) == day % 7

\* a daily reset made at every check, whatever the date
check_daily_reset_always(m, last, current_date) ==
  [metrics |-> reset_daily_metrics(m), last |-> current_date]

\* _check_daily_reset
check_daily_reset(m, last, current_date) ==
  IF current_date > last
  THEN [metrics |-> reset_daily_metrics(m), last |-> current_date]
  ELSE [metrics |-> m, last |-> last]

\* _is_trading_allowed
is_trading_allowed(m) ==
  /\ ~(m.consecutive_losses >= EmergencyStopLosses)
  /\ ~(m.daily_loss >= max_daily_loss)

\* _is_market_hours
is_market_hours(day) == ~(Weekday(day) >= 5)

\* can_place_trade after the daily reset: the ordered checks.
can_place_trade_noceiling(m, amount, balance, day) ==
  IF ~is_trading_allowed(m) THEN [allow |-> FALSE, reason |-> "disabled"]
  ELSE IF m.daily_loss >= max_daily_loss
    THEN [allow |-> FALSE, reason |-> "daily_loss"]
  ELSE IF balance < amount * 2 THEN [allow |-> FALSE, reason |-> "balance"]
  ELSE IF amount * 100 > balance * risk_percentage
    THEN [allow |-> FALSE, reason |-> "risk"]
  ELSE IF m.consecutive_losses >= ConsecutiveLossLimit
    THEN [allow |-> FALSE, reason |-> "losses"]
  ELSE IF ~is_market_hours(day) THEN [allow |-> FALSE, reason |-> "hours"]
  ELSE [allow |-> TRUE, reason |-> "approved"]

\* the balance test moved in front of the concurrent ceiling
can_place_trade_reordered(m, amount, balance, day) ==
  IF ~is_trading_allowed(m) THEN [allow |-> FALSE, reason |-> "disabled"]
  ELSE IF balance < amount * 2 THEN [allow |-> FALSE, reason |-> "balance"]
  ELSE IF m.concurrent_trades >= max_concurrent_trades
    THEN [allow |-> FALSE, reason |-> "concurrent"]
  ELSE IF m.daily_loss >= max_daily_loss
    THEN [allow |-> FALSE, reason |-> "daily_loss"]
  ELSE IF amount * 100 > balance * risk_percentage
    THEN [allow |-> FALSE, reason |-> "risk"]
  ELSE IF m.consecutive_losses >= ConsecutiveLossLimit
    THEN [allow |-> FALSE, reason |-> "losses"]
  ELSE IF ~is_market_hours(day) THEN [allow |-> FALSE, reason |-> "hours"]
  ELSE [allow |-> TRUE, reason |-> "approved"]

can_place_trade(m, amount, balance, day) ==
  IF ~is_trading_allowed(m) THEN [allow |-> FALSE, reason |-> "disabled"]
  ELSE IF m.concurrent_trades >= max_concurrent_trades
    THEN [allow |-> FALSE, reason |-> "concurrent"]
  ELSE IF m.daily_loss >= max_daily_loss
    THEN [allow |-> FALSE, reason |-> "daily_loss"]
  ELSE IF balance < amount * 2 THEN [allow |-> FALSE, reason |-> "balance"]
  ELSE IF amount * 100 > balance * risk_percentage
    THEN [allow |-> FALSE, reason |-> "risk"]
  ELSE IF m.consecutive_losses >= ConsecutiveLossLimit
    THEN [allow |-> FALSE, reason |-> "losses"]
  ELSE IF ~is_market_hours(day) THEN [allow |-> FALSE, reason |-> "hours"]
  ELSE [allow |-> TRUE, reason |-> "approved"]

\* a factor that grows with the loss count
Damp_up(a, n) == a + (a * n) \div 10

\* base_amount *= 0.9 ** n, one factor at a time
RECURSIVE Damp(_, _)
Damp(a, n) == IF n = 0 \/ a = 0 THEN a ELSE Damp((a * 9) \div 10, n - 1)

\* the damped amount under the ceiling alone, without the floor
calculate_position_size_nofloor(m, amount, balance) ==
  LET max_risk_amount == (balance * risk_percentage) \div 100
      max_amount == Min(max_trade_amount, max_risk_amount)
      base_amount == IF m.consecutive_losses > 0
                     THEN Damp(amount, m.consecutive_losses) ELSE amount
  IN Min(base_amount, max_amount)

calculate_position_size(m, amount, balance) ==
  LET max_risk_amount == (balance * risk_percentage) \div 100
      max_amount == Min(max_trade_amount, max_risk_amount)
      base_amount == IF m.consecutive_losses > 0
                     THEN Damp(amount, m.consecutive_losses) ELSE amount
  IN Max(min_trade_amount, Min(base_amount, max_amount))

should_use_martingale(seqs, m, sigId) ==
  IF ~martingale_enabled THEN FALSE
  ELSE IF sigId \in DOMAIN seqs /\ seqs[sigId].current_step >= max_martingale_steps
    THEN FALSE
  ELSE IF m.consecutive_losses < 1 THEN FALSE
  ELSE TRUE

\* create_martingale_sequence: stored under the id of the signal it is given
create_martingale_sequence(seqs, sig, seqId) ==
  Put(seqs, sig.id, NewMartingaleSequence(seqId, sig.id, sig.amount, max_martingale_steps))

\* get_next_martingale_amount without the comparison with half the balance
get_next_martingale_amount_any(seqs, sigId, balance) ==
  IF sigId \notin DOMAIN seqs THEN [seqs |-> seqs, amount |-> NoAmount]
  ELSE LET r == next_step(seqs[sigId], martingale_multiplier)
       IN IF ~r.ok THEN [seqs |-> seqs, amount |-> NoAmount]
          ELSE [seqs |-> Put(seqs, sigId, r.seq), amount |-> r.amount]

\* get_next_martingale_amount that serves an id without a sequence from
\* the sequence created last, stepping past the ceiling
get_next_martingale_amount_unbounded(seqs, sigId, balance) ==
  LET k == IF sigId \in DOMAIN seqs THEN sigId
           ELSE CHOOSE x \in DOMAIN seqs : \A y \in DOMAIN seqs : y <= x
      step == seqs[k].max_steps + 1
      amount == seqs[k].base_amount * (martingale_multiplier ^ step)
  IN [seqs |-> Put(seqs, k, [seqs[k] EXCEPT !.current_step = step,
                                             !.current_amount = amount]),
      amount |-> amount]

\* get_next_martingale_amount: NoAmount stands for None
get_next_martingale_amount(seqs, sigId, balance) ==
  IF sigId \notin DOMAIN seqs THEN [seqs |-> seqs, amount |-> NoAmount]
  ELSE LET r == next_step(seqs[sigId], martingale_multiplier)
       IN IF ~r.ok THEN [seqs |-> seqs, amount |-> NoAmount]
          ELSE IF r.amount * 2 > balance
            THEN [seqs |-> Put(seqs, sigId, r.seq), amount |-> NoAmount]
          ELSE [seqs |-> Put(seqs, sigId, r.seq), amount |-> r.amount]

\* _update_martingale_sequences: the first sequence that lists the trade
update_martingale_sequences(seqs, trade) ==
  LET hit == {k \in DOMAIN seqs : trade.id \in SeqToSet(seqs[k].trades)}
  IN IF hit = {} THEN seqs
     ELSE LET k == CHOOSE x \in hit :
                     \A y \in hit : seqs[x].sequence_id <= seqs[y].sequence_id
              s1 == add_trade(seqs[k], trade.id, trade.amount)
              s2 == IF trade.status = "won" THEN complete_sequence(s1, "won")
                    ELSE IF trade.status = "lost" /\ s1.current_step >= s1.max_steps
                      THEN complete_sequence(s1, "lost")
                    ELSE s1
          IN Put(seqs, k, s2)

\* record_trade_result: session and ledger counters move only when a
\* session object exists; the sequences are updated in either case.
record_trade_result(m, sess, seqs, trade) ==
  LET won == sess.present /\ trade.status = "won"
      lost == sess.present /\ trade.status = "lost"
      s1 == IF ~sess.present THEN sess
            ELSE IF won
              THEN [sess EXCEPT !.total_trades = @ + 1, !.winning_trades = @ + 1,
                                !.total_profit_loss = @ + trade.profit_loss]
            ELSE IF lost
              THEN [sess EXCEPT !.total_trades = @ + 1, !.losing_trades = @ + 1,
                                !.total_profit_loss = @ - trade.amount]
            ELSE [sess EXCEPT !.total_trades = @ + 1]
      m1 == IF won
              THEN [m EXCEPT !.daily_profit = @ + trade.profit_loss,
                             !.consecutive_losses = 0]
            ELSE IF lost
              THEN [m EXCEPT !.daily_loss = @ + trade.amount,
                             !.consecutive_losses = @ + 1,
                             !.max_consecutive_losses =
                                 Max(@, m.consecutive_losses + 1)]
            ELSE m
  IN [metrics |-> m1, session |-> s1, seqs |-> update_martingale_sequences(seqs, trade)]

update_concurrent_trades_stale(m, count) == m

update_concurrent_trades(m, count) == [m EXCEPT !.concurrent_trades = count]

\* end_session: sets end_time on the session object if there is one
end_session(sess) == IF ~sess.present THEN sess ELSE [sess EXCEPT !.is_active = FALSE]

force_stop_trading(m, sess, seqs) ==
  [metrics |-> [m EXCEPT !.consecutive_losses = ForceStopSentinel],
   session |-> IF sess.present /\ sess.is_active THEN end_session(sess) ELSE sess,
   seqs |-> [k \in DOMAIN seqs |->
               IF ~seqs[k].is_complete THEN complete_sequence(seqs[k], "cancelled")
               ELSE seqs[k]]]

(***************************************************************************)
(* State after construction.                                               *)
(*   InitRisk : RiskManager() alone; no session has been started.          *)
(*   Init     : TradingBot.initialize(): RiskManager(), start_session(),   *)
(*              TradeExecutor(broker, risk_manager); start() not called.   *)
(***************************************************************************)
EmptyMap == [x \in {} |-> 0]
NoAdmit == [called |-> FALSE, allow |-> FALSE, reason |-> "none", concurrent |-> 0]
IdleExec == [pc |-> "idle", sig |-> 0, trade |-> 0]
\* the last trade handed to record_trade_result from outside
\* (sequence: the key of the recovery sequence the trade was placed for, 0
\* for a trade of no sequence)
NoRecord == [status |-> "none", amount |-> 0, profit_loss |-> 0, sequence |-> 0]
\* the inputs and the result of a pure method under check
NoCalc == [op |-> "none"]
NoLoss == [done |-> FALSE, trade |-> 0, eligible |-> FALSE, enqueued |-> 0, intent |-> 0]

InitCommon ==
  /\ risk_metrics = NewRiskMetrics
  /\ martingale_sequences = EmptyMap
  /\ now = 0
  /\ today = 3
  /\ last_daily_reset = today
  /\ signal_queue = <<>>
  /\ signals = EmptyMap
  /\ pending_signals = <<>>
  /\ active_trades = <<>>
  /\ trades = EmptyMap
  /\ is_running = FALSE
  /\ auto_trading_enabled = TRUE
  /\ stats = [signals_received |-> 0, trades_executed |-> 0,
              trades_won |-> 0, trades_lost |-> 0]
  /\ broker_active = {}
  /\ dispatcher = "off"
  /\ promoter = [pc |-> "off", todo |-> <<>>]
  /\ monitor = [pc |-> "off", cur |-> 0, rest |-> <<>>, completed |-> {}]
  /\ exec = [c \in {"d", "p"} |-> IdleExec]
  /\ nextId = 1
  /\ submitted = 0
  /\ reported = EmptyMap
  /\ lastAdmit = NoAdmit
  /\ amountLog = EmptyMap
  /\ forceStopped = FALSE
  /\ numRecorded = 0
  /\ lastRecord = NoRecord
  /\ execCount = EmptyMap
  /\ recordCount = EmptyMap
  /\ lastLoss = NoLoss
  /\ overwritten = {}
  /\ stopSeen = {}

InitRisk == InitCommon /\ current_session = NoSession /\ calc = NoCalc

Init == InitCommon /\ current_session = NewSession /\ calc = NoCalc

(***************************************************************************)
(* The RiskManager's methods as operations called from outside.            *)
(***************************************************************************)
pipeVars == <<execVars, taskVars, pipeHist>>

\* start_session: an active previous session is ended, then replaced
StartSession ==
  /\ current_session' = NewSession
  /\ UNCHANGED <<risk_metrics, martingale_sequences, last_daily_reset,
                 envVars, pipeVars, riskHist>>

EndSession ==
  /\ current_session' = end_session(current_session)
  /\ UNCHANGED <<risk_metrics, martingale_sequences, last_daily_reset,
                 envVars, pipeVars, riskHist>>

\* can_place_trade(signal, current_balance): daily reset, then the checks
Admit(amount, balance) ==
  LET r == check_daily_reset(risk_metrics, last_daily_reset, today)
      a == can_place_trade(r.metrics, amount, balance, today)
  IN /\ risk_metrics' = r.metrics
     /\ last_daily_reset' = r.last
     /\ lastAdmit' = [called |-> TRUE, allow |-> a.allow, reason |-> a.reason,
                      concurrent |-> r.metrics.concurrent_trades]

CanPlaceTrade ==
  \E amount \in Amounts, balance \in AdmitBalances :
    /\ Admit(amount, balance)
    /\ UNCHANGED <<current_session, martingale_sequences, envVars, pipeVars,
                   amountLog, forceStopped, numRecorded, lastRecord, calc>>

UpdateConcurrentTrades ==
  \E count \in 0..(max_concurrent_trades + 1) :
    /\ risk_metrics' = update_concurrent_trades(risk_metrics, count)
    /\ UNCHANGED <<current_session, martingale_sequences, last_daily_reset,
                   envVars, pipeVars, riskHist>>

\* record_trade_result(trade) for a settled or cancelled trade
RecordTradeResult ==
  \E status \in {"won", "lost", "cancelled"}, amount \in Amounts :
    LET trade == [id |-> 1, amount |-> amount, status |-> status,
                  profit_loss |-> IF status = "won" THEN (amount * 8) \div 10
                                  ELSE 0 - amount]
        r == record_trade_result(risk_metrics, current_session,
                                 martingale_sequences, trade)
    IN /\ numRecorded < MaxRecords
       /\ numRecorded' = numRecorded + 1
       /\ lastRecord' = [status |-> status, amount |-> amount,
                         profit_loss |-> trade.profit_loss, sequence |-> 0]
       /\ risk_metrics' = r.metrics
       /\ current_session' = r.session
       /\ martingale_sequences' = r.seqs
       /\ UNCHANGED <<last_daily_reset, envVars, pipeVars, lastAdmit,
                      amountLog, forceStopped, calc>>

ForceStopTrading ==
  LET r == force_stop_trading(risk_metrics, current_session, martingale_sequences)
  IN /\ risk_metrics' = r.metrics
     /\ current_session' = r.session
     /\ martingale_sequences' = r.seqs
     /\ forceStopped' = TRUE
     /\ lastAdmit' = NoAdmit
     /\ UNCHANGED <<last_daily_reset, envVars, pipeVars, amountLog, numRecorded, lastRecord, calc>>

\* midnight: datetime.now().date() moves to the next day
AdvanceDate ==
  /\ today < MaxDay
  /\ today' = today + 1
  /\ UNCHANGED <<riskVars, now, pipeVars, riskHist>>

NextRisk ==
  \/ StartSession
  \/ EndSession
  \/ CanPlaceTrade
  \/ UpdateConcurrentTrades
  \/ RecordTradeResult
  \/ ForceStopTrading
  \/ AdvanceDate

SpecRisk == InitRisk /\ [][NextRisk]_vars

(***************************************************************************)
(* The recovery sequencer's methods as operations called from outside.     *)
(***************************************************************************)
NewLog == [results |-> <<>>, sufficient |-> TRUE]

\* what one get_next_martingale_amount call adds to the log of its sequence
Logged(log, seq, balance, amount) ==
  [results |-> Append(log.results, amount),
   sufficient |-> log.sufficient /\
      (seq.current_step < seq.max_steps =>
         seq.base_amount * (martingale_multiplier ^ (seq.current_step + 1)) * 2 <= balance)]

CreateMartingaleSequence ==
  \E sigId \in 1..MaxSignals, amount \in Amounts :
    /\ sigId \notin DOMAIN martingale_sequences
    /\ martingale_sequences' =
         create_martingale_sequence(martingale_sequences,
                                    [id |-> sigId, amount |-> amount], nextId)
    /\ nextId' = nextId + 1
    /\ amountLog' = Put(amountLog, sigId, NewLog)
    /\ UNCHANGED <<risk_metrics, current_session, last_daily_reset, envVars,
                   execVars, taskVars, submitted, reported, execCount, recordCount,
                   lastLoss, overwritten, lastAdmit, forceStopped, numRecorded, lastRecord, calc,
                 stopSeen>>

GetNextMartingaleAmount ==
  \E sigId \in DOMAIN martingale_sequences, balance \in Balances :
    LET r == get_next_martingale_amount(martingale_sequences, sigId, balance)
    IN /\ Len(amountLog[sigId].results) < MaxCalls
       /\ martingale_sequences' = r.seqs
       /\ amountLog' = Put(amountLog, sigId,
                           Logged(amountLog[sigId], martingale_sequences[sigId],
                                  balance, r.amount))
       /\ UNCHANGED <<risk_metrics, current_session, last_daily_reset, envVars,
                      pipeVars, lastAdmit, forceStopped, numRecorded, lastRecord, calc>>

\* record_trade_result(trade) for a settled trade that was placed for the
\* intent of sequence k at its current amount.  The trade has a fresh id;
\* no code path puts the id of a trade into sequence.trades before the call.
RecordSequenceTrade ==
  \E k \in DOMAIN martingale_sequences, status \in {"won", "lost"} :
    LET amount == martingale_sequences[k].current_amount
        trade == [id |-> nextId, amount |-> amount, status |-> status,
                  profit_loss |-> IF status = "won" THEN (amount * 8) \div 10
                                  ELSE 0 - amount]
        r == record_trade_result(risk_metrics, current_session,
                                 martingale_sequences, trade)
    IN /\ numRecorded < MaxRecords
       /\ numRecorded' = numRecorded + 1
       /\ nextId' = nextId + 1
       /\ lastRecord' = [status |-> status, amount |-> amount,
                         profit_loss |-> trade.profit_loss, sequence |-> k]
       /\ risk_metrics' = r.metrics
       /\ current_session' = r.session
       /\ martingale_sequences' = r.seqs
       /\ UNCHANGED <<last_daily_reset, envVars, execVars, taskVars, submitted,
                      reported, execCount, recordCount, lastLoss, overwritten,
                      stopSeen, lastAdmit, amountLog, forceStopped, calc>>

NextMartingale ==
  \/ CreateMartingaleSequence
  \/ GetNextMartingaleAmount
  \/ RecordSequenceTrade
  \/ ForceStopTrading

SpecMartingale == InitRisk /\ [][NextMartingale]_vars

(***************************************************************************)
(* The running pipeline: trading/trade_executor.py over the venue client   *)
(* brokers/qxbroker_client.py.  Venue calls go through asyncio.to_thread    *)
(* and suspend the caller; their answers are inputs.                       *)
(***************************************************************************)
Ticks == {60}
Bump(f, k) == Put(f, k, IF k \in DOMAIN f THEN f[k] + 1 ELSE 1)

\* TradingSignal(...): a fresh id; expiry_time None is NoTime, and a
\* scheduled time is a naive datetime unless its tzinfo says otherwise;
\* original_signal_id is the metadata entry of that name, 0 when absent
NewSignal(asset, direction, amount, duration, expiry) ==
  [asset |-> asset, direction |-> direction, amount |-> amount,
   duration |-> duration, expiry_time |-> expiry, tzinfo |-> "none",
   original_signal_id |-> 0]

\* Trade(signal_id=..., ...): status PENDING, start_time = now
NewTrade(sigId, sig, t) ==
  [signal_id |-> sigId, asset |-> sig.asset, direction |-> sig.direction,
   amount |-> sig.amount, duration |-> sig.duration, start_time |-> t,
   status |-> "pending", profit_loss |-> 0]

\* the venue's answer for a trade, read by check_trade_result: result > 0
\* is a win.  A venue that has answered keeps its answer.
VenueAnswers(trade) ==
  IF trade.status = "won" THEN {"win"}
  ELSE IF trade.status = "lost" THEN {"loss"}
  ELSE {"win", "loss"}

\* check_trade_result with an answer: status and profit_loss are overwritten
check_trade_result(trade, res) ==
  IF res = "win"
  THEN [trade EXCEPT !.status = "won", !.profit_loss = (trade.amount * 8) \div 10]
  ELSE [trade EXCEPT !.status = "lost", !.profit_loss = 0 - trade.amount]

\* ids of the trades whose terminal status differs between two trade maps
Rewritten(old, new) ==
  {t \in DOMAIN old : old[t].status \in TerminalStatus /\ new[t].status # old[t].status}

\* TradeExecutor.start: refuses when running, else starts the three loops.
\* The loops of an earlier start must have returned.
Start ==
  /\ ~is_running
  /\ dispatcher \in {"off", "exited"}
  /\ promoter.pc \in {"off", "exited"}
  /\ monitor.pc \in {"off", "exited"}
  /\ is_running' = TRUE
  /\ dispatcher' = "wait"
  /\ promoter' = [pc |-> "sleep", todo |-> <<>>]
  /\ monitor' = [pc |-> "sleep", cur |-> 0, rest |-> <<>>, completed |-> {}]
  /\ stopSeen' = {}
  /\ UNCHANGED <<riskVars, envVars, signal_queue, signals, pending_signals,
                 active_trades, trades, auto_trading_enabled, stats,
                 broker_active, exec, riskHist, nextId, submitted, reported, execCount,
                 recordCount, lastLoss, overwritten>>

\* TradeExecutor.stop: clears the flag and the delayed intents; the trades
\* in flight are only logged
Stop ==
  /\ is_running \/ pending_signals # <<>>
  /\ is_running' = FALSE
  /\ pending_signals' = <<>>
  /\ stopSeen' = stopSeen \cup SeqToSet(active_trades)
  /\ UNCHANGED <<riskVars, envVars, signal_queue, signals, active_trades,
                 trades, auto_trading_enabled, stats, broker_active, taskVars,
                 riskHist, nextId, submitted, reported, execCount, recordCount, lastLoss,
                 overwritten>>

enable_auto_trading ==
  /\ ~auto_trading_enabled
  /\ auto_trading_enabled' = TRUE
  /\ UNCHANGED <<riskVars, envVars, signal_queue, signals, pending_signals,
                 active_trades, trades, is_running, stats, broker_active,
                 taskVars, riskHist, pipeHist>>

disable_auto_trading ==
  /\ auto_trading_enabled
  /\ auto_trading_enabled' = FALSE
  /\ UNCHANGED <<riskVars, envVars, signal_queue, signals, pending_signals,
                 active_trades, trades, is_running, stats, broker_active,
                 taskVars, riskHist, pipeHist>>

\* a parsed intent reaches TradingBot._on_signal_received -> add_signal
AddSignal ==
  \E asset \in Assets, direction \in Directions, amount \in Amounts,
     duration \in Durations, expiry \in {NoTime, now + 30} :
    /\ submitted < MaxSignals
    /\ submitted' = submitted + 1
    /\ signals' = Put(signals, nextId, NewSignal(asset, direction, amount, duration, expiry))
    /\ signal_queue' = Append(signal_queue, nextId)
    /\ nextId' = nextId + 1
    /\ stats' = [stats EXCEPT !.signals_received = @ + 1]
    /\ UNCHANGED <<riskVars, envVars, pending_signals, active_trades, trades,
                   is_running, auto_trading_enabled, broker_active, taskVars,
                   riskHist, reported, execCount, recordCount, lastLoss,
                   overwritten, stopSeen>>

\* the message handed to the signal callback; a denial carries its reason
Message(text, reason) == [text |-> text, reason |-> reason]

\* _call_signal_callback(signal, message): TradingBot._on_signal_processed
\* receives the message; it logs it and never suspends
call_signal_callback(rep, s, message) == Put(rep, s, message)

\* an executor that takes up the same intent again instead of returning
Return_retry(c) ==
  /\ exec' = [exec EXCEPT ![c].pc = "balance"]
  /\ execCount' = Bump(execCount, exec[c].sig)
  /\ UNCHANGED <<dispatcher, promoter>>

\* _execute_signal returns to the loop that called it.  The dispatcher
\* re-tests is_running; the promoter goes on with its batch, then sleeps.
Return(c) ==
  IF c = "d"
  THEN /\ exec' = [exec EXCEPT !["d"] = IdleExec]
       /\ dispatcher' = IF is_running THEN "wait" ELSE "exited"
       /\ UNCHANGED <<promoter, execCount>>
  ELSE /\ dispatcher' = dispatcher
       /\ IF promoter.todo = <<>>
          THEN /\ exec' = [exec EXCEPT !["p"] = IdleExec]
               /\ promoter' = [pc |-> "sleep", todo |-> <<>>]
               /\ UNCHANGED execCount
          ELSE /\ exec' = [exec EXCEPT !["p"] =
                             [pc |-> "balance", sig |-> Head(promoter.todo), trade |-> 0]]
               /\ promoter' = [promoter EXCEPT !.todo = Tail(@)]
               /\ execCount' = Bump(execCount, Head(promoter.todo))

\* _process_signals: queue.get() delivers an intent
DispatchTake ==
  /\ dispatcher = "wait"
  /\ signal_queue # <<>>
  /\ signal_queue' = Tail(signal_queue)
  /\ LET s == Head(signal_queue)
     IN IF ~auto_trading_enabled
        THEN /\ dispatcher' = IF is_running THEN "wait" ELSE "exited"
             /\ reported' = call_signal_callback(reported, s,
                                Message("Auto trading disabled", "none"))
             /\ UNCHANGED <<pending_signals, exec, execCount>>
        ELSE IF signals[s].expiry_time # NoTime /\ signals[s].tzinfo # "none"
        THEN \* expiry_time > datetime.now() raises TypeError for a
             \* scheduled time with tzinfo: logged, the intent is gone
             /\ dispatcher' = "failed"
             /\ UNCHANGED <<pending_signals, exec, execCount, reported>>
        ELSE IF signals[s].expiry_time # NoTime /\ signals[s].expiry_time > now
        THEN /\ pending_signals' = Append(pending_signals, s)
             /\ dispatcher' = IF is_running THEN "wait" ELSE "exited"
             /\ UNCHANGED <<exec, execCount, reported>>
        ELSE /\ exec' = [exec EXCEPT !["d"] = [pc |-> "balance", sig |-> s, trade |-> 0]]
             /\ execCount' = Bump(execCount, s)
             /\ dispatcher' = "busy"
             /\ UNCHANGED <<pending_signals, reported>>
  /\ UNCHANGED <<riskVars, envVars, signals, active_trades, trades, is_running,
                 auto_trading_enabled, stats, broker_active, promoter, monitor,
                 riskHist, nextId, submitted, recordCount, lastLoss, overwritten,
                 stopSeen>>

\* _process_signals: the one-second wait times out and the loop test fails
DispatchTimeout ==
  /\ dispatcher = "wait"
  /\ signal_queue = <<>>
  /\ ~is_running
  /\ dispatcher' = "exited"
  /\ UNCHANGED <<riskVars, envVars, execVars, promoter, monitor, exec,
                 riskHist, pipeHist>>

\* the ready intents leave pending_signals in the pass that collects them
PromoteReady_keep(pending, sigs, t) ==
  [todo |-> SelectSeq(pending, LAMBDA s : sigs[s].expiry_time # NoTime /\ sigs[s].expiry_time <= t),
   pending |-> pending]

PromoteReady(pending, sigs, t) ==
  [todo |-> SelectSeq(pending, LAMBDA s : sigs[s].expiry_time # NoTime /\ sigs[s].expiry_time <= t),
   pending |-> SelectSeq(pending, LAMBDA s : ~(sigs[s].expiry_time # NoTime /\ sigs[s].expiry_time <= t))]

\* _process_pending_signals: one pass after the sleep
PromoterWake ==
  /\ promoter.pc = "sleep"
  /\ IF ~is_running
     THEN /\ promoter' = [pc |-> "exited", todo |-> <<>>]
          /\ UNCHANGED <<pending_signals, exec, execCount>>
     ELSE LET r == PromoteReady(pending_signals, signals, now)
          IN /\ r.todo # <<>>
             /\ pending_signals' = r.pending
             /\ promoter' = [pc |-> "busy", todo |-> Tail(r.todo)]
             /\ exec' = [exec EXCEPT !["p"] =
                           [pc |-> "balance", sig |-> Head(r.todo), trade |-> 0]]
             /\ execCount' = Bump(execCount, Head(r.todo))
  /\ UNCHANGED <<riskVars, envVars, signal_queue, signals, active_trades,
                 trades, is_running, auto_trading_enabled, stats, broker_active,
                 dispatcher, monitor, riskHist, nextId, submitted, reported, recordCount,
                 lastLoss, overwritten,
                 stopSeen>>

\* _execute_signal, from the answer of get_balance to the next venue call:
\* admission, sizing, and the write of the size into the intent
ExecBalance(c) ==
  /\ exec[c].pc = "balance"
  /\ \E b \in Balances \cup {NoBalance} :
       LET s == exec[c].sig
       IN IF b = NoBalance
          THEN /\ reported' = call_signal_callback(reported, s,
                                  Message("Could not get balance", "none"))
               /\ Return(c)
               /\ UNCHANGED <<risk_metrics, last_daily_reset, lastAdmit, signals>>
          ELSE /\ Admit(signals[s].amount, b)
               /\ IF lastAdmit'.allow
                  THEN /\ signals' = [signals EXCEPT ![s].amount =
                              calculate_position_size(risk_metrics', @, b)]
                       /\ exec' = [exec EXCEPT ![c].pc = "asset"]
                       /\ UNCHANGED <<dispatcher, promoter, execCount, reported>>
                  ELSE /\ reported' = call_signal_callback(reported, s,
                                Message("Risk check failed", lastAdmit'.reason))
                       /\ Return(c)
                       /\ UNCHANGED signals
  /\ UNCHANGED <<current_session, martingale_sequences, envVars, signal_queue,
                 pending_signals, active_trades, trades, is_running,
                 auto_trading_enabled, stats, broker_active, monitor,
                 amountLog, forceStopped, numRecorded, lastRecord, calc, nextId, submitted,
                 recordCount, lastLoss, overwritten,
                 stopSeen>>

\* _execute_signal, from the answer of check_asset_open to place_trade
ExecAsset(c) ==
  /\ exec[c].pc = "asset"
  /\ \E open \in BOOLEAN :
       IF ~open
       THEN /\ reported' = call_signal_callback(reported, exec[c].sig,
                               Message("Asset not open for trading", "none"))
            /\ Return(c)
            /\ UNCHANGED <<trades, nextId>>
       ELSE /\ trades' = Put(trades, nextId,
                             NewTrade(exec[c].sig, signals[exec[c].sig], now))
            /\ nextId' = nextId + 1
            /\ exec' = [exec EXCEPT ![c].pc = "place", ![c].trade = nextId]
            /\ UNCHANGED <<dispatcher, promoter, execCount, reported>>
  /\ UNCHANGED <<riskVars, envVars, signal_queue, signals, pending_signals,
                 active_trades, is_running, auto_trading_enabled, stats,
                 broker_active, monitor, riskHist, submitted, recordCount,
                 lastLoss, overwritten,
                 stopSeen>>

\* QXBrokerClient.place_trade returns and _execute_signal books the trade
\* (the callbacks that follow change nothing and are part of the return):
\*   "ok"      the venue accepted (status ACTIVE, both in-flight sets grow)
\*   "error"   the venue answered nothing usable (status ERROR)
\*   "refused" not connected, or the buy call raised (status untouched)
ExecPlace(c) ==
  /\ exec[c].pc = "place"
  /\ \E outcome \in {"ok", "error", "refused"} :
       LET t == exec[c].trade
       IN IF outcome = "ok"
          THEN /\ trades' = [trades EXCEPT ![t].status = "active"]
               /\ broker_active' = broker_active \cup {t}
               /\ active_trades' = Append(active_trades, t)
               /\ stats' = [stats EXCEPT !.trades_executed = @ + 1]
               /\ risk_metrics' = update_concurrent_trades(risk_metrics,
                                                           Len(active_trades'))
               /\ reported' = call_signal_callback(reported, exec[c].sig,
                                  Message("Trade placed successfully", "none"))
               /\ Return(c)
          ELSE /\ trades' = IF outcome = "error"
                            THEN [trades EXCEPT ![t].status = "error"]
                            ELSE trades
               /\ reported' = call_signal_callback(reported, exec[c].sig,
                                  Message("Failed to place trade", "none"))
               /\ Return(c)
               /\ UNCHANGED <<broker_active, active_trades, stats, risk_metrics>>
  /\ UNCHANGED <<current_session, martingale_sequences, last_daily_reset,
                 envVars, signal_queue, signals, pending_signals, is_running,
                 auto_trading_enabled, monitor, riskHist, nextId, submitted,
                 recordCount, lastLoss, overwritten,
                 stopSeen>>

\* a monitor that never finds a trade due
Eligible_never(trade, t) == FALSE

\* a trade is due as soon as its duration has passed, without the buffer
Eligible_early(trade, t) ==
  trade.start_time # NoTime /\ t - trade.start_time >= trade.duration

\* _monitor_trades: elapsed >= duration + 10
Eligible(trade, t) ==
  trade.start_time # NoTime /\ t - trade.start_time >= trade.duration + SettleBuffer

\* _monitor_trades, the for loop from one suspension to the next: trades
\* not yet due are passed over; the first due trade is polled; after the
\* last one the completed trades still in active_trades are evicted and the
\* in-flight count is set, before the loop sleeps.
Scan(rest, completed, m) ==
  LET due == {i \in 1..Len(rest) : Eligible(trades[rest[i]], now)}
  IN IF due # {}
     THEN LET i == CHOOSE x \in due : \A y \in due : x <= y
          IN /\ monitor' = [pc |-> "check", cur |-> rest[i],
                            rest |-> SubSeq(rest, i + 1, Len(rest)),
                            completed |-> completed]
             /\ active_trades' = active_trades
             /\ risk_metrics' = m
     ELSE /\ monitor' = [pc |-> "sleep", cur |-> 0, rest |-> <<>>, completed |-> {}]
          /\ active_trades' = SelectSeq(active_trades, LAMBDA t : t \notin completed)
          /\ risk_metrics' = update_concurrent_trades(m, Len(active_trades'))

\* _monitor_trades wakes: loop test, empty check, snapshot of active_trades
MonitorWake ==
  /\ monitor.pc = "sleep"
  /\ IF ~is_running
     THEN /\ monitor' = [pc |-> "exited", cur |-> 0, rest |-> <<>>, completed |-> {}]
          /\ UNCHANGED <<active_trades, risk_metrics>>
     ELSE /\ active_trades # <<>>
          /\ Scan(active_trades, {}, risk_metrics)
  /\ UNCHANGED <<current_session, martingale_sequences, last_daily_reset,
                 envVars, signal_queue, signals, pending_signals, trades,
                 is_running, auto_trading_enabled, stats, broker_active,
                 dispatcher, promoter, exec, riskHist, pipeHist>>

\* check_trade_result returns to _monitor_trades: no answer yet, or the
\* trade is settled, counted and recorded, and the trade callback is awaited
MonitorResult ==
  /\ monitor.pc = "check"
  /\ \E res \in {"none"} \cup VenueAnswers(trades[monitor.cur]) :
       LET t == monitor.cur
       IN IF res = "none"
          THEN /\ Scan(monitor.rest, monitor.completed, risk_metrics)
               /\ UNCHANGED <<trades, broker_active, stats, current_session,
                              martingale_sequences, recordCount, overwritten>>
          ELSE LET settled == check_trade_result(trades[t], res)
                   r == record_trade_result(risk_metrics, current_session,
                                            martingale_sequences,
                                            [id |-> t, amount |-> settled.amount,
                                             status |-> settled.status,
                                             profit_loss |-> settled.profit_loss])
               IN /\ trades' = [trades EXCEPT ![t] = settled]
                  /\ overwritten' = overwritten \cup Rewritten(trades, trades')
                  /\ broker_active' = broker_active \ {t}
                  /\ stats' = IF res = "win"
                              THEN [stats EXCEPT !.trades_won = @ + 1]
                              ELSE [stats EXCEPT !.trades_lost = @ + 1]
                  /\ risk_metrics' = r.metrics
                  /\ current_session' = r.session
                  /\ martingale_sequences' = r.seqs
                  /\ recordCount' = Bump(recordCount, t)
                  /\ monitor' = [monitor EXCEPT !.pc = "notify",
                                                !.completed = @ \cup {t}]
                  /\ UNCHANGED active_trades
  /\ UNCHANGED <<last_daily_reset, envVars, signal_queue, signals,
                 pending_signals, is_running, auto_trading_enabled, dispatcher,
                 promoter, exec, riskHist, nextId, submitted, reported, execCount, lastLoss,
                 stopSeen>>

\* the trade callback returns to _monitor_trades; for a trade whose status
\* is LOST _handle_martingale starts and, if recovery applies, asks the
\* venue for the balance
MonitorNotified ==
  /\ monitor.pc = "notify"
  /\ IF /\ trades[monitor.cur].status = "lost"
        /\ should_use_martingale(martingale_sequences, risk_metrics,
                                 trades[monitor.cur].signal_id)
     THEN /\ monitor' = [monitor EXCEPT !.pc = "mg"]
          /\ UNCHANGED <<active_trades, risk_metrics>>
     ELSE Scan(monitor.rest, monitor.completed, risk_metrics)
  /\ UNCHANGED <<current_session, martingale_sequences, last_daily_reset,
                 envVars, signal_queue, signals, pending_signals, trades,
                 is_running, auto_trading_enabled, stats, broker_active,
                 dispatcher, promoter, exec, riskHist, pipeHist>>

\* _handle_martingale, from the answer of get_balance to its end: the
\* sequence is looked up under lost_trade.signal_id; when there is none a
\* new TradingSignal is built from the lost trade and the sequence is
\* created from that signal; the next amount is asked for under
\* lost_trade.signal_id; an amount makes an intent that is enqueued.
MonitorMartingale ==
  /\ monitor.pc = "mg"
  /\ \E b \in Balances \cup {NoBalance} :
       LET t == monitor.cur
           lost == trades[t]
           sid == lost.signal_id
           have == sid \in DOMAIN martingale_sequences
           seqs1 == IF have THEN martingale_sequences
                    ELSE create_martingale_sequence(martingale_sequences,
                            [id |-> nextId, amount |-> lost.amount], nextId + 1)
           log1 == IF have THEN amountLog ELSE Put(amountLog, nextId, NewLog)
           r == get_next_martingale_amount(seqs1, sid, b)
           k == IF have THEN nextId ELSE nextId + 2
           wanted == IF have
                     THEN martingale_sequences[sid].base_amount *
                          (martingale_multiplier ^ (martingale_sequences[sid].current_step + 1))
                     ELSE lost.amount * martingale_multiplier
       IN IF b = NoBalance
          THEN /\ lastLoss' = [done |-> TRUE, trade |-> t, eligible |-> FALSE,
                               enqueued |-> 0, intent |-> 0]
               /\ UNCHANGED <<martingale_sequences, amountLog, nextId,
                              signal_queue, signals, stats>>
          ELSE /\ martingale_sequences' = r.seqs
               /\ amountLog' = IF sid \in DOMAIN seqs1
                               THEN Put(log1, sid, Logged(log1[sid], seqs1[sid], b, r.amount))
                               ELSE log1
               /\ IF r.amount = NoAmount
                  THEN /\ nextId' = k
                       /\ UNCHANGED <<signal_queue, signals, stats>>
                  ELSE /\ signals' = Put(signals, k,
                              [NewSignal(lost.asset, lost.direction, r.amount,
                                         lost.duration, NoTime)
                                 EXCEPT !.original_signal_id = sid])
                       /\ signal_queue' = Append(signal_queue, k)
                       /\ stats' = [stats EXCEPT !.signals_received = @ + 1]
                       /\ nextId' = k + 1
               /\ lastLoss' = [done |-> TRUE, trade |-> t,
                               eligible |-> wanted * 2 <= b,
                               enqueued |-> Len(signal_queue') - Len(signal_queue),
                               intent |-> IF r.amount = NoAmount THEN 0 ELSE k]
  /\ Scan(monitor.rest, monitor.completed, risk_metrics)
  /\ UNCHANGED <<current_session, last_daily_reset, envVars, pending_signals,
                 trades, is_running, auto_trading_enabled, broker_active,
                 dispatcher, promoter, exec, lastAdmit, forceStopped,
                 numRecorded, lastRecord, calc, submitted, reported, execCount, recordCount, overwritten,
                 stopSeen>>

\* QXBrokerClient.monitor_active_trades: a trade of the venue client's own
\* in-flight set whose duration has passed is polled and the venue answers
BrokerMonitorCheck ==
  \E t \in broker_active :
    \E res \in VenueAnswers(trades[t]) :
      /\ trades[t].start_time # NoTime
      /\ now - trades[t].start_time >= trades[t].duration
      /\ trades' = [trades EXCEPT ![t] = check_trade_result(trades[t], res)]
      /\ overwritten' = overwritten \cup Rewritten(trades, trades')
      /\ broker_active' = broker_active \ {t}
      /\ UNCHANGED <<riskVars, envVars, signal_queue, signals, pending_signals,
                     active_trades, is_running, auto_trading_enabled, stats,
                     taskVars, riskHist, nextId, submitted, reported, execCount,
                     recordCount, lastLoss,
                 stopSeen>>

\* cancel_all_trades records every trade of active_trades, in order
RECURSIVE RecordAll(_, _, _, _, _)
RecordAll(m, sess, seqs, trs, ts) ==
  IF ts = <<>> THEN [metrics |-> m, session |-> sess, seqs |-> seqs]
  ELSE LET t == Head(ts)
           r == record_trade_result(m, sess, seqs,
                   [id |-> t, amount |-> trs[t].amount, status |-> trs[t].status,
                    profit_loss |-> trs[t].profit_loss])
       IN RecordAll(r.metrics, r.session, r.seqs, trs, Tail(ts))

\* TradeExecutor.cancel_all_trades; it never suspends.  The venue client
\* cancels its own in-flight set only while connected.
CancelAllTrades ==
  \E connected \in BOOLEAN :
    LET mine == SeqToSet(active_trades)
        t1 == [t \in DOMAIN trades |->
                 IF connected /\ t \in broker_active
                 THEN [trades[t] EXCEPT !.status = "cancelled"] ELSE trades[t]]
        t2 == [t \in DOMAIN trades |->
                 IF t \in mine THEN [t1[t] EXCEPT !.status = "cancelled"] ELSE t1[t]]
        r == RecordAll(risk_metrics, current_session, martingale_sequences,
                       t2, active_trades)
    IN /\ active_trades # <<>> \/ (connected /\ broker_active # {})
       /\ trades' = t2
       /\ overwritten' = overwritten \cup Rewritten(trades, t2)
       /\ broker_active' = IF connected THEN {} ELSE broker_active
       /\ recordCount' = [t \in (DOMAIN recordCount) \cup mine |->
                            IF t \in mine
                            THEN (IF t \in DOMAIN recordCount THEN recordCount[t] ELSE 0) + 1
                            ELSE recordCount[t]]
       /\ active_trades' = <<>>
       /\ risk_metrics' = update_concurrent_trades(r.metrics, 0)
       /\ current_session' = r.session
       /\ martingale_sequences' = r.seqs
       /\ UNCHANGED <<last_daily_reset, envVars, signal_queue, signals,
                      pending_signals, is_running, auto_trading_enabled, stats,
                      taskVars, riskHist, nextId, submitted, reported, execCount, lastLoss,
                 stopSeen>>

\* the clock moves
Tick ==
  \E d \in Ticks :
    /\ now + d <= MaxTime
    /\ now' = now + d
    /\ UNCHANGED <<riskVars, today, execVars, taskVars, riskHist, pipeHist>>

Next ==
  \/ Start
  \/ Stop
  \/ enable_auto_trading
  \/ disable_auto_trading
  \/ AddSignal
  \/ DispatchTake
  \/ DispatchTimeout
  \/ PromoterWake
  \/ \E c \in {"d", "p"} : ExecBalance(c)
  \/ \E c \in {"d", "p"} : ExecAsset(c)
  \/ \E c \in {"d", "p"} : ExecPlace(c)
  \/ MonitorWake
  \/ MonitorResult
  \/ MonitorNotified
  \/ MonitorMartingale
  \/ BrokerMonitorCheck
  \/ CancelAllTrades
  \/ Tick

Spec == Init /\ [][Next]_vars

(***************************************************************************)
(* Properties of the risk ledger and of the recovery sequencer.            *)
(***************************************************************************)

\* C1: can_place_trade never allows an intent while the in-flight count it
\* reads, concurrent_trades, is at or above max_concurrent_trades.
AdmitRespectsConcurrentCeiling ==
  (lastAdmit.called /\ lastAdmit.allow)
     => lastAdmit.concurrent < max_concurrent_trades

\* a call made at the ceiling, denied for that reason
AdmitDeniedAtCeiling ==
  /\ lastAdmit.called
  /\ lastAdmit.concurrent >= max_concurrent_trades
  /\ ~lastAdmit.allow
  /\ lastAdmit.reason = "concurrent"

\* C2: once force_stop_trading has run, every later can_place_trade call
\* returns false, whatever is recorded and whatever dates pass in between.
\* (lastAdmit is cleared by force_stop_trading, so it is a later call.)
StoppedStaysStopped ==
  (forceStopped /\ lastAdmit.called) => ~lastAdmit.allow

\* C5: no recovery sequence's current_step exceeds its max_steps.
StepWithinCeiling ==
  \A k \in DOMAIN martingale_sequences :
    martingale_sequences[k].current_step <= martingale_sequences[k].max_steps

\* a sequence at its ceiling that has refused a further step
StepRefusedAtCeiling ==
  \E k \in DOMAIN martingale_sequences :
    /\ martingale_sequences[k].current_step = martingale_sequences[k].max_steps
    /\ Len(amountLog[k].results) > martingale_sequences[k].max_steps
    /\ amountLog[k].results[Len(amountLog[k].results)] = NoAmount

\* C6: with the balance sufficient at every call, the successive results of
\* get_next_martingale_amount for one sequence are base * multiplier^i for
\* i = 1..max_steps, and none from then on.
AmountsFollowLadder ==
  \A k \in DOMAIN martingale_sequences :
    amountLog[k].sufficient =>
      \A i \in 1..Len(amountLog[k].results) :
        amountLog[k].results[i] =
          IF i <= martingale_sequences[k].max_steps
          THEN martingale_sequences[k].base_amount * (martingale_multiplier ^ i)
          ELSE NoAmount

\* the whole ladder was drawn under sufficient balance, then a refusal
LadderDrawnToTheEnd ==
  \E k \in DOMAIN martingale_sequences :
    /\ amountLog[k].sufficient
    /\ Len(amountLog[k].results) = martingale_sequences[k].max_steps + 1
    /\ amountLog[k].results[1] = 20 * Dollar
    /\ amountLog[k].results[martingale_sequences[k].max_steps] = 80 * Dollar

(***************************************************************************)
(* Properties of the running pipeline.                                     *)
(***************************************************************************)

\* C3: a trade whose status is won, lost, cancelled or error keeps that
\* status for ever, under any interleaving of the monitor loop,
\* cancel_all_trades and the venue's result polling.  (overwritten collects
\* the trades whose terminal status some step replaced by another status.)
TerminalStatusIsFinal == overwritten = {}

\* C4: in every state between two atomic segments, the ledger's
\* concurrent_trades equals the number of trades in active_trades.
ConcurrentMatchesInFlight ==
  risk_metrics.concurrent_trades = Len(active_trades)

\* two trades were placed, one of them has left the in-flight set again
InFlightAfterEviction ==
  /\ stats.trades_executed = 2
  /\ Len(active_trades) = 1
  /\ risk_metrics.concurrent_trades = 1

\* C7: when the monitor has settled a trade as lost, recovery applies (it
\* is enabled, a loss streak exists, the ceiling is not reached) and the
\* balance covers twice the next amount, _handle_martingale has enqueued
\* exactly one intent, with the lost trade's asset, direction and duration
\* and the next recovery amount.
LossEnqueuesRecovery ==
  (lastLoss.done /\ lastLoss.eligible) =>
     /\ lastLoss.enqueued = 1
     /\ signals[lastLoss.intent].asset = trades[lastLoss.trade].asset
     /\ signals[lastLoss.intent].direction = trades[lastLoss.trade].direction
     /\ signals[lastLoss.intent].duration = trades[lastLoss.trade].duration
     /\ signals[lastLoss.intent].amount =
           trades[lastLoss.trade].amount * martingale_multiplier

\* C8: every recovery sequence is stored under, and records as its
\* original_signal_id, the id of an intent that produced a trade (the
\* lost trade's signal_id), so that there is one sequence per originating
\* intent.
SequenceKeyedByOriginatingIntent ==
  \A k \in DOMAIN martingale_sequences :
    /\ martingale_sequences[k].original_signal_id = k
    /\ \E t \in DOMAIN trades : trades[t].signal_id = k

\* C9: once stop() has taken effect and the monitor loop has returned, no
\* trade that was in flight when that stop() ran (stopSeen) is left without
\* having been recorded in the ledger (cancelled, or settled and recorded).
StoppedLeavesNothingInFlight ==
  (~is_running /\ monitor.pc = "exited") =>
     \A t \in stopSeen : t \in DOMAIN recordCount

\* C10: every intent is handed to _execute_signal at most once, and no two
\* trades carry the same intent id, whichever of the dispatcher and the
\* promoter executes it.
IntentExecutedAtMostOnce ==
  /\ \A s \in DOMAIN execCount : execCount[s] <= 1
  /\ \A t1, t2 \in DOMAIN trades :
       trades[t1].signal_id = trades[t2].signal_id => t1 = t2

\* one intent went through the promoter, another through the dispatcher,
\* and both were placed
BothPathsPlaced ==
  \E t1, t2 \in DOMAIN trades :
    /\ signals[trades[t1].signal_id].expiry_time # NoTime
    /\ signals[trades[t2].signal_id].expiry_time = NoTime
    /\ trades[t1].status # "pending"
    /\ trades[t2].status # "pending"
    /\ execCount[trades[t1].signal_id] = 1
    /\ execCount[trades[t2].signal_id] = 1

(***************************************************************************)
(* The daily ledger across a date boundary.                                *)
(***************************************************************************)
\* a step in which record_trade_result was called from outside
Recorded == numRecorded' = numRecorded + 1

\* C11: an outcome recorded after the date has advanced past the last reset
\* is counted in the new day alone: after the call the daily accumulators
\* and the consecutive-loss counter hold this outcome and nothing of the
\* day before.
RecordCountsInNewDay ==
  [][(Recorded /\ current_session.present /\ today > last_daily_reset)
       => /\ risk_metrics'.daily_loss =
               (IF lastRecord'.status = "lost" THEN lastRecord'.amount ELSE 0)
          /\ risk_metrics'.daily_profit =
               (IF lastRecord'.status = "won" THEN lastRecord'.profit_loss ELSE 0)
          /\ risk_metrics'.consecutive_losses =
               (IF lastRecord'.status = "lost" THEN 1 ELSE 0)]_vars

\* C12: the daily reset happens once per date boundary: the first
\* _check_daily_reset after the date has advanced zeroes daily_loss,
\* daily_profit and consecutive_losses and moves the reset date to the current
\* date, and a check made on the date of the last reset leaves the ledger and
\* the reset date as they are, so that a second check changes nothing.
DailyResetOncePerBoundary ==
  LET first == check_daily_reset(risk_metrics, last_daily_reset, today)
      again == check_daily_reset(first.metrics, first.last, today)
  IN /\ today > last_daily_reset
          => /\ first.metrics.daily_loss = 0
             /\ first.metrics.daily_profit = 0
             /\ first.metrics.consecutive_losses = 0
             /\ first.last = today
     /\ today <= last_daily_reset
          => first = [metrics |-> risk_metrics, last |-> last_daily_reset]
     /\ again = first

\* two losses were counted, a check on a later date zeroed the ledger, and
\* the ledger of the new date holds one loss since that reset
LedgerKeptAfterReset ==
  /\ lastAdmit.called
  /\ last_daily_reset = today
  /\ today > 3
  /\ risk_metrics.max_consecutive_losses >= 2
  /\ risk_metrics.consecutive_losses = 1
  /\ risk_metrics.daily_loss = 10 * Dollar

\* C13: in every reachable state of the RiskManager, record_trade_result of
\* a Won trade adds the trade's profit to daily_profit and sets
\* consecutive_losses to 0, and record_trade_result of a Lost trade adds the
\* staked amount to daily_loss, increments consecutive_losses and raises
\* max_consecutive_losses to at least the new value.
RecordUpdatesLedger ==
  [][Recorded =>
       /\ lastRecord'.status = "won"
            => /\ risk_metrics'.daily_profit =
                    risk_metrics.daily_profit + lastRecord'.profit_loss
               /\ risk_metrics'.consecutive_losses = 0
       /\ lastRecord'.status = "lost"
            => /\ risk_metrics'.daily_loss =
                    risk_metrics.daily_loss + lastRecord'.amount
               /\ risk_metrics'.consecutive_losses =
                    risk_metrics.consecutive_losses + 1
               /\ risk_metrics'.max_consecutive_losses >=
                    risk_metrics'.consecutive_losses]_vars

(***************************************************************************)
(* calculate_position_size as a method called from outside, for a fixed    *)
(* intent amount and balance, while the ledger counts further losses.      *)
(***************************************************************************)
\* calc holds the inputs, the last two results and the loss counts they were
\* computed at
InitSize ==
  /\ InitCommon
  /\ current_session = NewSession
  /\ calc \in [op : {"size"}, amount : SizeAmounts, balance : SizeBalances,
                calls : {0}, size : {0}, at : {0}, prev : {0}, prevAt : {0}]

CalculatePositionSize ==
  /\ calc' = [calc EXCEPT
               !.calls = Min(calc.calls + 1, 2),
               !.size = calculate_position_size(risk_metrics, calc.amount,
                                                calc.balance),
               !.at = risk_metrics.consecutive_losses,
               !.prev = calc.size,
               !.prevAt = calc.at]
  /\ UNCHANGED <<riskVars, envVars, pipeVars, lastAdmit, amountLog,
                 forceStopped, numRecorded, lastRecord>>

\* record_trade_result of a lost trade: one more consecutive loss
SizeRecordLoss ==
  LET trade == [id |-> 1, amount |-> calc.amount, status |-> "lost",
                profit_loss |-> 0 - calc.amount]
      r == record_trade_result(risk_metrics, current_session,
                               martingale_sequences, trade)
  IN /\ risk_metrics.consecutive_losses < MaxLosses
     /\ risk_metrics' = r.metrics
     /\ current_session' = r.session
     /\ martingale_sequences' = r.seqs
     /\ UNCHANGED <<last_daily_reset, envVars, pipeVars, riskHist>>

NextSize ==
  \/ CalculatePositionSize
  \/ SizeRecordLoss

SpecSize == InitSize /\ [][NextSize]_vars

\* C14: calculate_position_size returns a value in
\* [min_trade_amount, max_trade_amount] for every intent amount, also one
\* outside that range, every balance and every consecutive-loss count.
SizeWithinLimits ==
  calc.calls >= 1
    => (min_trade_amount <= calc.size /\ calc.size <= max_trade_amount)

\* an intent amount above the range was sized down to max_trade_amount
SizeClampedFromAbove ==
  /\ calc.calls >= 1
  /\ calc.amount > max_trade_amount
  /\ calc.size = max_trade_amount

\* C15: for a fixed intent amount and balance, calculate_position_size is
\* non-increasing in the consecutive-loss count: the size computed at a
\* higher count is at most the size computed at a lower one.
SizeNonIncreasingInLosses ==
  calc.calls >= 2
    => /\ calc.prevAt <= calc.at => calc.size <= calc.prev
       /\ calc.prevAt >= calc.at => calc.size >= calc.prev

\* two sizes computed at different loss counts, the later one smaller
SizeReducedAfterLosses ==
  /\ calc.calls >= 2
  /\ calc.prevAt < calc.at
  /\ calc.size < calc.prev

(***************************************************************************)
(* The order of the admission checks.                                      *)
(***************************************************************************)
\* the tests of can_place_trade in the order of the source, each with the
\* reason its denial returns
AdmissionChecks(m, amount, balance, day) ==
  << [fails |-> ~is_trading_allowed(m), reason |-> "disabled"],
     [fails |-> m.concurrent_trades >= max_concurrent_trades,
      reason |-> "concurrent"],
     [fails |-> m.daily_loss >= max_daily_loss, reason |-> "daily_loss"],
     [fails |-> balance < amount * 2, reason |-> "balance"],
     [fails |-> amount * 100 > balance * risk_percentage, reason |-> "risk"],
     [fails |-> m.consecutive_losses >= ConsecutiveLossLimit,
      reason |-> "losses"],
     [fails |-> ~is_market_hours(day), reason |-> "hours"] >>

\* the index of the first failing test, 0 when none fails
FirstFailing(checks) ==
  LET failing == {i \in DOMAIN checks : checks[i].fails}
  IN IF failing = {} THEN 0
     ELSE CHOOSE i \in failing : \A j \in failing : i <= j

Dropped(c) ==
  /\ exec[c].pc \in {"balance", "asset"}
  /\ exec'[c].pc = "idle" \/ exec'[c].sig # exec[c].sig

\* the intent is in no queue, no pending set and no _execute_signal run
GoneFromPipeline(s) ==
  /\ s \notin SeqToSet(signal_queue')
  /\ s \notin SeqToSet(pending_signals')
  /\ s \notin SeqToSet(promoter'.todo)
  /\ \A c \in DOMAIN exec : exec'[c].pc = "idle" \/ exec'[c].sig # s

\* C16: when can_place_trade denies an intent or the venue reports its asset
\* as not open, no Trade is placed for it: the step leaves the trades, both
\* in-flight sets and trades_executed unchanged and reports the reason
\* through the signal callback, and from then on the intent has been handed
\* to _execute_signal once, has no Trade and is nowhere in the pipeline.
DeniedIntentPlacesNothing ==
  [][/\ \A c \in DOMAIN exec :
          Dropped(c) =>
            LET s == exec[c].sig
            IN /\ trades' = trades
               /\ active_trades' = active_trades
               /\ broker_active' = broker_active
               /\ stats'.trades_executed = stats.trades_executed
               /\ s \in DOMAIN reported'
               /\ s \notin DOMAIN reported
               /\ reported'[s].text \in
                    {"Could not get balance", "Risk check failed",
                     "Asset not open for trading"}
               /\ exec[c].pc = "asset"
                    => reported'[s].text = "Asset not open for trading"
               /\ reported'[s].text = "Risk check failed"
                    => /\ lastAdmit'.called /\ ~lastAdmit'.allow
                       /\ reported'[s].reason = lastAdmit'.reason
     /\ \A s \in DOMAIN reported' :
          reported'[s].text \in {"Risk check failed", "Asset not open for trading"}
            => /\ GoneFromPipeline(s)
               /\ execCount'[s] = 1
               /\ \A t \in DOMAIN trades' : trades'[t].signal_id # s]_vars

\* one intent was denied by the risk check and another was dropped for a
\* closed asset
DeniedAndClosedReported ==
  \E s1, s2 \in DOMAIN reported :
    /\ reported[s1].text = "Risk check failed"
    /\ reported[s2].text = "Asset not open for trading"

(***************************************************************************)
(* Closure of a recovery sequence.                                         *)
(***************************************************************************)
\* a step of SpecMartingale in which force_stop_trading was called
StoppedByForce ==
  /\ forceStopped'
  /\ lastAdmit' = NoAdmit
  /\ risk_metrics'.consecutive_losses = ForceStopSentinel
  /\ UNCHANGED <<nextId, amountLog, numRecorded>>

\* C18: a recovery sequence is marked complete with final outcome Won when a
\* trade belonging to it is recorded as Won, with Lost when a trade belonging
\* to it is recorded as Lost at the step ceiling, and with Cancelled when
\* force_stop_trading is called while it is incomplete.
SequenceClosedByItsOutcome ==
  [][/\ (Recorded /\ lastRecord'.sequence \in DOMAIN martingale_sequences)
          => LET before == martingale_sequences[lastRecord'.sequence]
                 after == martingale_sequences'[lastRecord'.sequence]
             IN /\ lastRecord'.status = "won"
                     => after.is_complete /\ after.final_result = "won"
                /\ (lastRecord'.status = "lost"
                      /\ before.current_step >= before.max_steps)
                     => after.is_complete /\ after.final_result = "lost"
     /\ StoppedByForce
          => \A k \in DOMAIN martingale_sequences :
               ~martingale_sequences[k].is_complete
                 => /\ martingale_sequences'[k].is_complete
                    /\ martingale_sequences'[k].final_result = "cancelled"]_vars

\* MartingaleSequence.complete_sequence(result) called on a stored sequence
CompleteSequence ==
  \E k \in DOMAIN martingale_sequences, result \in {"won", "lost", "cancelled"} :
    /\ martingale_sequences' =
         Put(martingale_sequences, k,
             complete_sequence(martingale_sequences[k], result))
    /\ UNCHANGED <<risk_metrics, current_session, last_daily_reset, envVars,
                   pipeVars, riskHist>>

NextClose ==
  \/ CreateMartingaleSequence
  \/ GetNextMartingaleAmount
  \/ CompleteSequence
  \/ ForceStopTrading

SpecClose == InitRisk /\ [][NextClose]_vars

\* C19: closing a recovery sequence is idempotent: once a sequence is
\* complete, no later closure changes it; is_complete and final_result keep
\* the values of the first closure whatever result is passed later.
ClosureIsIdempotent ==
  [][\A k \in DOMAIN martingale_sequences :
       martingale_sequences[k].is_complete
         => /\ martingale_sequences'[k].is_complete
            /\ martingale_sequences'[k].final_result =
                 martingale_sequences[k].final_result]_vars

(***************************************************************************)
(* A placement that fails.                                                 *)
(***************************************************************************)
\* C20: when the venue's place_trade fails for a Trade, the Trade ends in
\* status Error, it is in neither in-flight set, and its intent has been
\* handed to _execute_signal once and is nowhere in the pipeline.
FailedPlacementEndsInError ==
  \A t \in DOMAIN trades :
    LET s == trades[t].signal_id
    IN (s \in DOMAIN reported /\ reported[s].text = "Failed to place trade")
         => /\ trades[t].status = "error"
            /\ t \notin SeqToSet(active_trades)
            /\ t \notin broker_active
            /\ execCount[s] = 1
            /\ s \notin SeqToSet(signal_queue)
            /\ s \notin SeqToSet(pending_signals)

(***************************************************************************)
(* Reports of intents that lead to no placed trade.                        *)
(***************************************************************************)
\* the intent waits in the queue, in the pending set, in the promoter's
\* batch or is being executed
InPipeline(s) ==
  \/ s \in SeqToSet(signal_queue)
  \/ s \in SeqToSet(pending_signals)
  \/ s \in SeqToSet(promoter.todo)
  \/ \E c \in DOMAIN exec : exec[c].pc # "idle" /\ exec[c].sig = s

\* C21: every intent accepted by add_signal that does not lead to a placed
\* trade is reported through the signal callback with a reason: an intent
\* that has left the queue, the pending set and every _execute_signal run
\* has a message recorded for it.
UnplacedIntentIsReported ==
  \A s \in DOMAIN signals :
    ~InPipeline(s) => s \in DOMAIN reported

(***************************************************************************)
(* telegram_integration/signal_parser.py                                   *)
(*                                                                         *)
(* A message text is a sequence of atoms: one-character atoms (digits,     *)
(* " ", "$", ".", "%", ":", "M", "H") and word atoms (runs of letters,     *)
(* the structured labels with their colon).  Two word atoms never stand    *)
(* side by side in a text.  The tables below say of every atom of the      *)
(* vocabulary what the regular expressions and substring tests of the      *)
(* parser see in it.                                                       *)
(***************************************************************************)
allowed_assets == <<"EURUSD", "GBPUSD", "USDJPY", "AUDUSD", "USDCAD">>
default_trade_amount == 10 * Dollar
min_signal_confidence == 70
DefaultDuration == 300
MinDuration == 60
MaxDuration == 3600

DigitAtoms == {"0", "1", "2", "3", "4", "5", "6", "7", "8", "9"}
SpaceAtoms == {" "}
WordAtoms ==
  {"EURUSD", "GBPUSD", "XAUUSD", "eurusd", "CALL", "PUT", "BUY", "SELL", "UP",
   "DOWN", "call", "hello", "MINUTES", "at", "for", "M", "H",
   "Asset:", "Direction:", "Amount:", "Duration:"}
Atoms == DigitAtoms \cup SpaceAtoms \cup WordAtoms \cup {"$", ".", "%", ":"}

\* str.upper()
Upper(a) ==
  CASE a = "eurusd" -> "EURUSD"
    [] a = "call" -> "CALL"
    [] a = "hello" -> "HELLO"
    [] a = "at" -> "AT"
    [] a = "for" -> "FOR"
    [] OTHER -> a

\* what [A-Z]{6} captures, ignoring case, when it has to end where the atom
\* ends: the last six letters of a run of six letters or more ("" if there
\* is none; a label ends in a colon)
Last6(a) ==
  CASE a \in {"EURUSD", "GBPUSD", "XAUUSD", "eurusd"} -> a
    [] a = "MINUTES" -> "INUTES"
    [] OTHER -> ""

\* the first character of a word atom, upper-cased
FirstLetter(a) ==
  CASE a \in {"M", "MINUTES"} -> "M"
    [] a \in {"H", "hello"} -> "H"
    [] OTHER -> ""

DirectionWords == {"CALL", "PUT", "BUY", "SELL", "UP", "DOWN"}

\* the keywords of SIGNAL_KEYWORDS found in the atom by
\* `keyword.upper() in text_upper or keyword in message_text`
KeywordsIn(a) ==
  IF Upper(a) \in DirectionWords THEN {Upper(a)} ELSE {}

DigitValue(d) ==
  CASE d = "0" -> 0 [] d = "1" -> 1 [] d = "2" -> 2 [] d = "3" -> 3
    [] d = "4" -> 4 [] d = "5" -> 5 [] d = "6" -> 6 [] d = "7" -> 7
    [] d = "8" -> 8 [] d = "9" -> 9

\* int("<digits>")
RECURSIVE DigitsToNat(_)
DigitsToNat(ds) ==
  IF ds = <<>> THEN 0
  ELSE DigitsToNat(SubSeq(ds, 1, Len(ds) - 1)) * 10 + DigitValue(ds[Len(ds)])

\* float("<digits>[.<digits>]") in 1/10000 dollar (at most four decimals)
RECURSIVE Fraction(_, _)
Fraction(ds, unit) ==
  IF ds = <<>> \/ unit = 0 THEN 0
  ELSE DigitValue(Head(ds)) * unit + Fraction(Tail(ds), unit \div 10)

ToAmount(s) ==
  LET dots == {i \in 1..Len(s) : s[i] = "."}
  IN IF dots = {} THEN DigitsToNat(s) * Dollar
     ELSE LET i == CHOOSE x \in dots : TRUE
          IN DigitsToNat(SubSeq(s, 1, i - 1)) * Dollar
               + Fraction(SubSeq(s, i + 1, Len(s)), Dollar \div 10)

(***************************************************************************)
(* Backtracking regular expressions (re.search) over atoms.  Run gives the *)
(* matches of a node from one state in the order the backtracking matcher  *)
(* tries them (greedy first); the first one is the match re returns.       *)
(***************************************************************************)
NoGroups ==
  [asset |-> <<>>, direction |-> <<>>, amount |-> <<>>, duration |-> <<>>,
   time |-> <<>>]

One(s) == [t |-> "one", s |-> s, a |-> 0, b |-> 0]
Cat(a, b) == [t |-> "cat", s |-> 0, a |-> a, b |-> b]
Opt(a) == [t |-> "opt", s |-> 0, a |-> a, b |-> 0]
Star(a) == [t |-> "star", s |-> 0, a |-> a, b |-> 0]
Plus(a) == [t |-> "plus", s |-> 0, a |-> a, b |-> 0]
Grp(name, a) == [t |-> "grp", s |-> name, a |-> a, b |-> 0]

RECURSIVE CatAll(_)
CatAll(ns) == IF Len(ns) = 1 THEN ns[1] ELSE Cat(Head(ns), CatAll(Tail(ns)))

RECURSIVE Run(_, _, _)
RECURSIVE RunAll(_, _, _)
Run(n, text, st) ==
  CASE n.t = "one" ->
         IF st.pos <= Len(text) /\ text[st.pos] \in n.s
         THEN <<[st EXCEPT !.pos = @ + 1]>> ELSE <<>>
    [] n.t = "cat" -> RunAll(n.b, text, Run(n.a, text, st))
    [] n.t = "opt" -> Run(n.a, text, st) \o <<st>>
    [] n.t = "star" -> RunAll(n, text, Run(n.a, text, st)) \o <<st>>
    [] n.t = "plus" -> RunAll(Star(n.a), text, Run(n.a, text, st))
    [] n.t = "grp" ->
         LET rs == Run(n.a, text, st)
         IN [i \in 1..Len(rs) |->
               [rs[i] EXCEPT !.g[n.s] = SubSeq(text, st.pos, rs[i].pos - 1)]]

RunAll(n, text, sts) ==
  IF sts = <<>> THEN <<>>
  ELSE Run(n, text, Head(sts)) \o RunAll(n, text, Tail(sts))

\* pattern.search(text): the first match at the leftmost starting position
Search(n, text) ==
  LET from(i) == Run(n, text, [pos |-> i, g |-> NoGroups])
      starts == {i \in 1..(Len(text) + 1) : from(i) # <<>>}
  IN IF starts = {} THEN [found |-> FALSE, g |-> NoGroups]
     ELSE LET i == CHOOSE x \in starts : \A y \in starts : x <= y
          IN [found |-> TRUE, g |-> Head(from(i)).g]

\* the pieces of _compile_patterns
Ws == One(SpaceAtoms)
Digit == One(DigitAtoms)
AssetNode == Grp("asset", One({a \in Atoms : Last6(a) # ""}))
DirectionNode == Grp("direction", One({a \in Atoms : Upper(a) \in DirectionWords}))
\* (?:\$?(?P<amount>\d+(?:\.\d+)?))?
AmountNode ==
  Opt(Cat(Opt(One({"$"})),
          Grp("amount", Cat(Plus(Digit), Opt(Cat(One({"."}), Plus(Digit)))))))
\* (?P<duration>\d+[MH]?)
DurationNode ==
  Grp("duration", Cat(Plus(Digit), Opt(One({a \in Atoms : FirstLetter(a) # ""}))))

PatternStandard ==
  CatAll(<<AssetNode, Plus(Ws), DirectionNode, Star(Ws), AmountNode, Star(Ws),
           DurationNode>>)

\* no emoji atom is in the vocabulary: the direction class of the emoji
\* pattern matches no atom
PatternEmoji ==
  CatAll(<<AssetNode, Star(Ws), Grp("direction", One({})), Star(Ws), AmountNode,
           Star(Ws), Grp("duration", Plus(Digit)), Star(Ws),
           Opt(One({a \in Atoms : FirstLetter(a) # ""}))>>)

PatternStructured ==
  CatAll(<<One({"Asset:"}), Star(Ws), AssetNode, Star(Ws), One({"Direction:"}),
           Star(Ws), DirectionNode, Star(Ws),
           Opt(CatAll(<<One({"Amount:"}), Star(Ws), Opt(One({"$"})),
                        Grp("amount", Cat(Plus(Digit),
                                          Opt(Cat(One({"."}), Plus(Digit))))),
                        Star(Ws)>>)),
           One({"Duration:"}), Star(Ws), DurationNode>>)

PatternTimed ==
  CatAll(<<AssetNode, Plus(Ws), DirectionNode, Plus(Ws),
           Opt(CatAll(<<One({"at"}), Plus(Ws),
                        Grp("time", CatAll(<<Digit, Opt(Digit), One({":"}),
                                             Digit, Digit>>))>>)),
           Star(Ws), Opt(Cat(One({"for"}), Plus(Ws))),
           Grp("duration", Plus(Digit)), Star(Ws),
           One({a \in Atoms : FirstLetter(a) = "M"})>>)

PatternSimple ==
  CatAll(<<AssetNode, Plus(Ws), DirectionNode, Star(Ws), Opt(DurationNode)>>)

signal_patterns ==
  <<PatternStandard, PatternEmoji, PatternStructured, PatternTimed,
    PatternSimple>>

NoConfidence == 0 - 1
NoSignal ==
  [some |-> FALSE, asset |-> "", direction |-> "", amount |-> 0,
   duration |-> 0, confidence |-> NoConfidence, expiry |-> "none"]

InList(x, list) == \E i \in 1..Len(list) : list[i] = x

\* the run of digit atoms that starts the sequence
RECURSIVE LeadingDigits(_)
LeadingDigits(s) ==
  IF s # <<>> /\ Head(s) \in DigitAtoms
  THEN <<Head(s)>> \o LeadingDigits(Tail(s)) ELSE <<>>

\* _parse_duration reading every number as seconds
parse_duration_seconds(duration_str) ==
  IF duration_str = <<>> THEN DefaultDuration
  ELSE DigitsToNat(LeadingDigits(duration_str))

\* what re.sub(r'[^0-9MH]', '', a.upper()) leaves of an atom
Kept(a) ==
  CASE a \in DigitAtoms -> a
    [] a \in {"M", "MINUTES", "Amount:"} -> "M"
    [] a \in {"H", "hello"} -> "H"
    [] OTHER -> ""

\* re.sub(r'[^0-9MH]', '', duration_str.upper())
RECURSIVE Cleaned(_)
Cleaned(s) ==
  IF s = <<>> THEN <<>>
  ELSE IF Kept(Head(s)) = "" THEN Cleaned(Tail(s))
  ELSE <<Kept(Head(s))>> \o Cleaned(Tail(s))

\* _parse_duration: None (no string or no digits) is the default or 0; the
\* unit read by ([MH]?) is replaced by 'M' when it is empty
parse_duration(duration_str) ==
  IF duration_str = <<>> THEN DefaultDuration
  ELSE LET cleaned == Cleaned(duration_str)
           digits == LeadingDigits(cleaned)
           number == DigitsToNat(digits)
           letter == IF Len(cleaned) > Len(digits)
                     THEN cleaned[Len(digits) + 1] ELSE ""
           unit == IF letter = "" THEN "M" ELSE letter
       IN IF digits = <<>> THEN 0
          ELSE IF unit = "M" THEN number * 60
          ELSE IF unit = "H" THEN number * 3600
          ELSE IF number > 60 THEN number
          ELSE number * 60

\* _parse_direction
parse_direction(direction_str) ==
  IF direction_str \in {"CALL", "BUY", "UP"} THEN "call"
  ELSE IF direction_str \in {"PUT", "SELL", "DOWN"} THEN "put"
  ELSE ""

\* _extract_confidence: of its four patterns only (\d+)% can match a text of
\* atoms; a value above 100 is passed over
extract_confidence(text) ==
  LET ends == {p \in 2..Len(text) : text[p] = "%" /\ text[p - 1] \in DigitAtoms}
  IN IF ends = {} THEN NoConfidence
     ELSE LET p == CHOOSE x \in ends : \A y \in ends : x <= y
              from == CHOOSE i \in 1..(p - 1) :
                        /\ \A j \in i..(p - 1) : text[j] \in DigitAtoms
                        /\ i = 1 \/ text[i - 1] \notin DigitAtoms
              confidence == DigitsToNat(SubSeq(text, from, p - 1))
          IN IF confidence <= 100 THEN confidence ELSE NoConfidence

\* _extract_expiry_time: today or tomorrow at hh:mm, always after now;
\* datetime.replace raises for an hour above 23 or a minute above 59
extract_expiry_time(time_str) ==
  IF time_str = <<>> THEN "none"
  ELSE LET colon == CHOOSE i \in 1..Len(time_str) : time_str[i] = ":"
           hour == DigitsToNat(SubSeq(time_str, 1, colon - 1))
           minute == DigitsToNat(SubSeq(time_str, colon + 1, Len(time_str)))
       IN IF hour <= 23 /\ minute <= 59 THEN "future" ELSE "none"

Clamp(amount) == Max(min_trade_amount, Min(amount, max_trade_amount))

\* _extract_signal_from_match
extract_signal_from_match(g, original_text) ==
  LET asset == Upper(Last6(g.asset[1]))
      direction == parse_direction(Upper(g.direction[1]))
      amount == IF g.amount # <<>> THEN ToAmount(g.amount)
                ELSE default_trade_amount
      duration == parse_duration(g.duration)
  IN IF ~InList(asset, allowed_assets) THEN NoSignal
     ELSE IF direction = "" THEN NoSignal
     ELSE IF duration = 0 THEN NoSignal
     ELSE [some |-> TRUE, asset |-> asset, direction |-> direction,
           amount |-> Clamp(amount), duration |-> duration,
           confidence |-> extract_confidence(original_text),
           expiry |-> extract_expiry_time(g.time)]

\* re.findall(r'\d+(?:\.\d+)?', text), from position i on
RECURSIVE FindNumbers(_, _)
FindNumbers(text, i) ==
  IF i > Len(text) THEN <<>>
  ELSE IF text[i] \notin DigitAtoms THEN FindNumbers(text, i + 1)
  ELSE LET whole == LeadingDigits(SubSeq(text, i, Len(text)))
           j == i + Len(whole)
           frac == IF j <= Len(text) /\ text[j] = "."
                   THEN LeadingDigits(SubSeq(text, j + 1, Len(text))) ELSE <<>>
           num == IF frac = <<>> THEN whole ELSE whole \o <<".">> \o frac
       IN <<num>> \o FindNumbers(text, i + Len(num))

\* the loop of _parse_keyword_signal over the numbers of the text
RECURSIVE ReadNumbers(_, _, _)
ReadNumbers(numbers, amount, duration) ==
  IF numbers = <<>> THEN [amount |-> amount, duration |-> duration]
  ELSE LET num == ToAmount(Head(numbers))
       IN IF 1 * Dollar <= num /\ num <= 1000 * Dollar
          THEN ReadNumbers(Tail(numbers), num, duration)
          ELSE IF 60 * Dollar <= num /\ num <= 3600 * Dollar
          THEN ReadNumbers(Tail(numbers), amount, num \div Dollar)
          ELSE IF 1 * Dollar <= num /\ num <= 60 * Dollar
          THEN ReadNumbers(Tail(numbers), amount, (num * 60) \div Dollar)
          ELSE ReadNumbers(Tail(numbers), amount, duration)

\* _parse_keyword_signal falling back to a default asset and direction
parse_keyword_signal_default(message_text) ==
  [some |-> TRUE, asset |-> allowed_assets[1], direction |-> "call",
   amount |-> default_trade_amount, duration |-> DefaultDuration,
   confidence |-> NoConfidence, expiry |-> "none"]

\* _parse_keyword_signal.  In a text of atoms an allow-listed asset is a
\* substring of the upper-cased text exactly when it is an atom of it.
parse_keyword_signal(message_text) ==
  LET present == {i \in 1..Len(allowed_assets) :
                    \E p \in 1..Len(message_text) :
                      Upper(message_text[p]) = allowed_assets[i]}
      found == UNION {KeywordsIn(message_text[p]) : p \in 1..Len(message_text)}
      direction == IF found \cap {"CALL", "BUY", "UP"} # {} THEN "call"
                   ELSE IF found \cap {"PUT", "SELL", "DOWN"} # {} THEN "put"
                   ELSE ""
      r == ReadNumbers(FindNumbers(message_text, 1), default_trade_amount,
                       DefaultDuration)
  IN IF present = {} THEN NoSignal
     ELSE IF direction = "" THEN NoSignal
     ELSE [some |-> TRUE,
           asset |-> allowed_assets[CHOOSE i \in present :
                                      \A j \in present : i <= j],
           direction |-> direction, amount |-> Clamp(r.amount),
           duration |-> r.duration, confidence |-> NoConfidence,
           expiry |-> "none"]

\* str.strip()
RECURSIVE Strip(_)
Strip(text) ==
  IF text # <<>> /\ Head(text) \in SpaceAtoms THEN Strip(Tail(text))
  ELSE IF text # <<>> /\ text[Len(text)] \in SpaceAtoms
  THEN Strip(SubSeq(text, 1, Len(text) - 1))
  ELSE text

\* parse_message: the patterns in order, then the keyword detection
RECURSIVE TryPatterns(_, _)
TryPatterns(patterns, text) ==
  IF patterns = <<>> THEN parse_keyword_signal(text)
  ELSE LET m == Search(Head(patterns), text)
           signal == IF m.found THEN extract_signal_from_match(m.g, text)
                     ELSE NoSignal
       IN IF signal.some THEN signal ELSE TryPatterns(Tail(patterns), text)

parse_message(message_text) == TryPatterns(signal_patterns, Strip(message_text))

\* ---------------------------------------------------------------------
\* SpecParse: parse_message applied to message texts
\* ---------------------------------------------------------------------
AssetWords == {"EURUSD", "GBPUSD", "XAUUSD", "eurusd"}
DirectionParts == {"CALL", "PUT", "UP", "hello"}
AmountParts ==
  {<<>>, <<"$", "1", "0">>, <<"1", "5">>, <<"2", ".", "5">>, <<"2", "0", "0">>,
   <<"0", ".", "5">>}
DurationParts ==
  {<<>>, <<"5", "M">>, <<"3", "M">>, <<"9", "0", "M">>, <<"2", "H">>,
   <<"0", "M">>, <<"5">>, <<"1", "0", " ", "MINUTES">>}

Spaced(part) == IF part = <<>> THEN <<>> ELSE <<" ">> \o part

\* '<asset> <direction> [$]<amount> <duration>' and its shorter forms
InlineTexts ==
  {<<a, " ", d>> \o Spaced(am) \o Spaced(du) :
     a \in AssetWords, d \in DirectionParts, am \in AmountParts,
     du \in DurationParts}

OtherTexts ==
  {<<>>,
   <<"hello">>,
   <<"hello", " ", "1", "0">>,
   <<"CALL", " ", "5", "M">>,
   <<"XAUUSD", " ", "hello", " ", "5", "M">>,
   <<"hello", " ", "EURUSD", " ", "hello", " ", "BUY", " ", "2", "5", " ",
     "1", "5", "0", "0">>,
   <<" ", "EURUSD", " ", "CALL", " ", "$", "1", "0", " ", "5", "M", " ">>,
   <<"EURUSD", " ", "CALL", " ", "1", "5", "M">>,
   <<"EURUSD", " ", "SELL", " ", "$", "1", "0", " ", "5", "M", " ", "8", "5",
     "%">>,
   <<"EURUSD", " ", "CALL", " ", "$", "1", "0", " ", "5", "M", " ", "0", "%">>,
   <<"EURUSD", " ", "CALL", " ", "at", " ", "1", "4", ":", "3", "0", " ",
     "for", " ", "5", " ", "MINUTES">>,
   <<"EURUSD", " ", "DOWN", " ", "for", " ", "9", "0", " ", "M">>,
   <<"Asset:", " ", "EURUSD", " ", "Direction:", " ", "CALL", " ", "Amount:",
     " ", "$", "1", "0", " ", "Duration:", " ", "5", "M">>,
   <<"Asset:", " ", "GBPUSD", " ", "Direction:", " ", "PUT", " ",
     "Duration:", " ", "2", "H">>}

Texts == InlineTexts \cup OtherTexts

InitParse ==
  /\ InitCommon
  /\ current_session = NoSession
  /\ calc \in [op : {"parse"}, text : Texts, done : {FALSE}, out : {NoSignal}]

ParseMessage ==
  /\ calc.op = "parse"
  /\ ~calc.done
  /\ calc' = [calc EXCEPT !.done = TRUE, !.out = parse_message(calc.text)]
  /\ UNCHANGED <<riskVars, envVars, pipeVars, lastAdmit, amountLog,
                 forceStopped, numRecorded, lastRecord>>

NextParse == ParseMessage

SpecParse == InitParse /\ [][NextParse]_vars

\* C22: whenever parse_message returns an intent, its asset is in
\* allowed_assets, its amount is within [min_trade_amount, max_trade_amount]
\* and its duration is within [60, 3600] seconds.
ParsedIntentWithinLimits ==
  (calc.op = "parse" /\ calc.done /\ calc.out.some)
    => /\ InList(calc.out.asset, allowed_assets)
       /\ min_trade_amount <= calc.out.amount
       /\ calc.out.amount <= max_trade_amount
       /\ MinDuration <= calc.out.duration
       /\ calc.out.duration <= MaxDuration

InlineAssets == {"EURUSD", "GBPUSD"}
InlineDirections == {"CALL", "PUT"}
InlineAmounts == {<<"1", "0">>, <<"1", "5">>, <<"2", ".", "5">>}
InlineMinutes == {<<"5">>, <<"3">>, <<"9", "0">>}

\* C23: for every text '<asset> <CALL|PUT> [$]<amount> <n>M' with an
\* allow-listed asset, an amount within the limits and n >= 1,
\* parse_message yields that asset, call for CALL and put for PUT, exactly
\* that amount and the duration 60 * n.
InlineTextParsedExactly ==
  \A a \in InlineAssets, d \in InlineDirections, am \in InlineAmounts,
     n \in InlineMinutes, dollar \in {<<>>, <<"$">>} :
    (/\ calc.op = "parse"
     /\ calc.done
     /\ calc.text = <<a, " ", d, " ">> \o dollar \o am \o <<" ">> \o n \o <<"M">>)
      => /\ calc.out.some
         /\ calc.out.asset = a
         /\ calc.out.direction = (IF d = "CALL" THEN "call" ELSE "put")
         /\ calc.out.amount = ToAmount(am)
         /\ calc.out.duration = 60 * DigitsToNat(n)

\* 'GBPUSD PUT 15 3M' was parsed
InlineTextParsed ==
  /\ calc.op = "parse"
  /\ calc.done
  /\ calc.text = <<"GBPUSD", " ", "PUT", " ", "1", "5", " ", "3", "M">>
  /\ calc.out.some
  /\ calc.out.duration = 180

HasAllowedAsset(text) ==
  \E p \in 1..Len(text) : InList(Upper(text[p]), allowed_assets)
HasDirectionKeyword(text) ==
  \E p \in 1..Len(text) : KeywordsIn(text[p]) # {}

\* C24: parse_message returns none for every text that holds no
\* allow-listed asset and no direction keyword.
NoAssetNoKeywordParsesToNone ==
  (/\ calc.op = "parse"
   /\ calc.done
   /\ ~HasAllowedAsset(calc.text)
   /\ ~HasDirectionKeyword(calc.text))
    => ~calc.out.some

\* a text of a foreign asset, a number and no direction word was parsed
ForeignTextParsed ==
  /\ calc.op = "parse"
  /\ calc.done
  /\ calc.text = <<"XAUUSD", " ", "hello", " ", "1", "5", " ", "5", "M">>
  /\ ~calc.out.some

\* ---------------------------------------------------------------------
\* SpecValidate: validate_signal applied to parsed intents
\* ---------------------------------------------------------------------
MaxValidateTime == 2

ValidateSignals ==
  [asset : {"EURUSD", "XAUUSD"},
   amount : {Dollar \div 2, min_trade_amount, 50 * Dollar, max_trade_amount,
             200 * Dollar},
   duration : {MinDuration - 1, MinDuration, 300, MaxDuration, MaxDuration + 1},
   confidence : {NoConfidence, 0, 50, min_signal_confidence - 1,
                 min_signal_confidence, 100},
   expiry_time : {NoTime} \cup 0..MaxValidateTime]

\* validate_signal with its clock reading t; 'signal.confidence and ...'
\* tests the truthiness of the value first, and neither None nor the number 0
\* is truthy (a datetime always is)
validate_signal(signal, t) ==
  IF ~InList(signal.asset, allowed_assets) THEN FALSE
  ELSE IF signal.amount < min_trade_amount \/ signal.amount > max_trade_amount
  THEN FALSE
  ELSE IF signal.duration < MinDuration \/ signal.duration > MaxDuration
  THEN FALSE
  ELSE IF /\ signal.confidence # NoConfidence /\ signal.confidence # 0
          /\ signal.confidence < min_signal_confidence
  THEN FALSE
  ELSE IF signal.expiry_time # NoTime /\ signal.expiry_time <= t
  THEN FALSE
  ELSE TRUE

InitValidate ==
  /\ InitCommon
  /\ current_session = NoSession
  /\ calc \in [op : {"validate"}, signal : ValidateSignals, done : {FALSE},
               valid : {FALSE}]

ValidateSignal ==
  /\ calc.op = "validate"
  /\ ~calc.done
  /\ calc' = [calc EXCEPT !.done = TRUE,
                          !.valid = validate_signal(calc.signal, now)]
  /\ UNCHANGED <<riskVars, envVars, pipeVars, lastAdmit, amountLog,
                 forceStopped, numRecorded, lastRecord>>

\* time passes before the intent is validated
ValidateClock ==
  /\ calc.op = "validate"
  /\ ~calc.done
  /\ now < MaxValidateTime
  /\ now' = now + 1
  /\ UNCHANGED <<riskVars, today, pipeVars, riskHist>>

NextValidate ==
  \/ ValidateSignal
  \/ ValidateClock

SpecValidate == InitValidate /\ [][NextValidate]_vars

\* C25: validate_signal returns true exactly when the asset is allow-listed,
\* the amount is within the limits, the duration is within [60, 3600], the
\* confidence is absent or at least min_signal_confidence (for every present
\* value 0..100) and the scheduled time is absent or in the future.
ValidExactlyWhenAllChecksHold ==
  (calc.op = "validate" /\ calc.done)
    => (calc.valid <=>
          /\ InList(calc.signal.asset, allowed_assets)
          /\ min_trade_amount <= calc.signal.amount
          /\ calc.signal.amount <= max_trade_amount
          /\ MinDuration <= calc.signal.duration
          /\ calc.signal.duration <= MaxDuration
          /\ \/ calc.signal.confidence = NoConfidence
             \/ calc.signal.confidence >= min_signal_confidence
          /\ \/ calc.signal.expiry_time = NoTime
             \/ calc.signal.expiry_time > now)

\* ---------------------------------------------------------------------
\* SpecCeiling: the running pipeline with one intent more than the ceiling
\* ---------------------------------------------------------------------
MaxCeilingSignals == 3

\* add_signal, for up to MaxCeilingSignals intents
AddSignalCeiling ==
  \E asset \in Assets, direction \in Directions, amount \in Amounts,
     duration \in Durations, expiry \in {NoTime, now + 30} :
    /\ submitted < MaxCeilingSignals
    /\ submitted' = submitted + 1
    /\ signals' = Put(signals, nextId, NewSignal(asset, direction, amount, duration, expiry))
    /\ signal_queue' = Append(signal_queue, nextId)
    /\ nextId' = nextId + 1
    /\ stats' = [stats EXCEPT !.signals_received = @ + 1]
    /\ UNCHANGED <<riskVars, envVars, pending_signals, active_trades, trades,
                   is_running, auto_trading_enabled, broker_active, taskVars,
                   riskHist, reported, execCount, recordCount, lastLoss,
                   overwritten, stopSeen>>

\* the three tasks of a started pipeline; stop(), cancel_all_trades and the
\* auto-trading switch are not called
NextCeiling ==
  \/ Start
  \/ AddSignalCeiling
  \/ DispatchTake
  \/ PromoterWake
  \/ \E c \in {"d", "p"} : ExecBalance(c)
  \/ \E c \in {"d", "p"} : ExecAsset(c)
  \/ \E c \in {"d", "p"} : ExecPlace(c)
  \/ MonitorWake
  \/ MonitorResult
  \/ MonitorNotified
  \/ MonitorMartingale
  \/ BrokerMonitorCheck
  \/ Tick

SpecCeiling == Init /\ [][NextCeiling]_vars

\* C26: the number of trades in the in-flight set never exceeds
\* max_concurrent_trades, under every interleaving of the _execute_signal
\* runs of the dispatcher and of the promoter.
InFlightWithinCeiling == Len(active_trades) <= max_concurrent_trades

\* C27: record_trade_result is invoked at most once per trade, and
\* trades_won / trades_lost count each trade at most once, under every
\* interleaving of the monitor loop, cancel_all_trades and stop() / start().
RecordedAtMostOnce ==
  /\ \A t \in DOMAIN recordCount : recordCount[t] <= 1
  /\ stats.trades_won + stats.trades_lost <= Cardinality(DOMAIN recordCount)

\* ---------------------------------------------------------------------
\* SpecSchedule: the running pipeline fed with scheduled intents, both of
\* the parser (scheduled time with tzinfo UTC) and of other callers
\* ---------------------------------------------------------------------

\* add_signal of an intent; _extract_expiry_time builds the scheduled time
\* from datetime.now(pytz.UTC), so the parser's scheduled times carry tzinfo
AddSignalScheduled ==
  \E asset \in Assets, direction \in Directions, amount \in Amounts,
     duration \in Durations,
     when \in {<<NoTime, "none">>, <<now + 30, "none">>, <<now + 30, "utc">>} :
    /\ submitted < MaxSignals
    /\ submitted' = submitted + 1
    /\ signals' = Put(signals, nextId,
                      [NewSignal(asset, direction, amount, duration, when[1])
                         EXCEPT !.tzinfo = when[2]])
    /\ signal_queue' = Append(signal_queue, nextId)
    /\ nextId' = nextId + 1
    /\ stats' = [stats EXCEPT !.signals_received = @ + 1]
    /\ UNCHANGED <<riskVars, envVars, pending_signals, active_trades, trades,
                   is_running, auto_trading_enabled, broker_active, taskVars,
                   riskHist, reported, execCount, recordCount, lastLoss,
                   overwritten, stopSeen>>

\* _process_signals after an exception: one second of sleep, then the loop
\* test
DispatchResume ==
  /\ dispatcher = "failed"
  /\ dispatcher' = IF is_running THEN "wait" ELSE "exited"
  /\ UNCHANGED <<riskVars, envVars, execVars, promoter, monitor, exec,
                 riskHist, pipeHist>>

\* the three tasks of a pipeline that is started and keeps running
NextSchedule ==
  \/ Start
  \/ AddSignalScheduled
  \/ DispatchTake
  \/ DispatchResume
  \/ PromoterWake
  \/ \E c \in {"d", "p"} : ExecBalance(c)
  \/ \E c \in {"d", "p"} : ExecAsset(c)
  \/ \E c \in {"d", "p"} : ExecPlace(c)
  \/ MonitorWake
  \/ MonitorResult
  \/ MonitorNotified
  \/ MonitorMartingale
  \/ BrokerMonitorCheck
  \/ Tick

SpecSchedule == Init /\ [][NextSchedule]_vars

Scheduled(s) == signals[s].expiry_time # NoTime

\* C28: an intent whose scheduled time is still in the future when it is
\* dequeued is put into pending_signals without reaching the admission
\* check, and no trade is placed for it before its scheduled time.
FutureIntentIsHeld ==
  /\ [][(/\ dispatcher = "wait"
         /\ signal_queue # <<>>
         /\ signal_queue' = Tail(signal_queue)
         /\ auto_trading_enabled
         /\ Scheduled(Head(signal_queue))
         /\ signals[Head(signal_queue)].expiry_time > now)
          => (/\ pending_signals' = Append(pending_signals, Head(signal_queue))
              /\ exec' = exec
              /\ lastAdmit' = lastAdmit)]_vars
  /\ [](\A t \in DOMAIN trades :
          Scheduled(trades[t].signal_id)
            => trades[t].start_time >= signals[trades[t].signal_id].expiry_time)

\* the event loop runs every task that is ready, and the clock advances
FairSchedule ==
  /\ SpecSchedule
  /\ WF_vars(DispatchTake)
  /\ WF_vars(DispatchResume)
  /\ WF_vars(PromoterWake)
  /\ \A c \in {"d", "p"} :
       WF_vars(ExecBalance(c)) /\ WF_vars(ExecAsset(c)) /\ WF_vars(ExecPlace(c))
  /\ WF_vars(Tick)

\* the ids an intent can carry within the bounds
IntentIds == 1..(3 * MaxSignals)

\* C29: while the pipeline keeps running, every intent submitted with a
\* future scheduled time is eventually taken out of pending_signals and
\* handed to the admission check once its time has arrived; it is never
\* lost in between.
ScheduledIntentEventuallyRuns ==
  \A s \in IntentIds :
    (/\ is_running
     /\ s \in DOMAIN signals
     /\ Scheduled(s)
     /\ signals[s].expiry_time <= MaxTime)
      ~> (s \in DOMAIN execCount)

\* C30: the monitor requests a trade's outcome only once the time elapsed
\* since its start is at least duration + 10 s; a trade whose outcome is
\* still pending stays in the in-flight set unchanged; and a trade leaves
\* the in-flight set only after its outcome was recorded in the ledger.
MonitorSettlesInOrder ==
  /\ [](monitor.pc = "check"
          => now - trades[monitor.cur].start_time
               >= trades[monitor.cur].duration + SettleBuffer)
  /\ [][(/\ monitor.pc = "check"
         /\ monitor' # monitor
         /\ monitor.cur \in SeqToSet(active_trades)
         /\ monitor.cur \notin monitor'.completed)
          => (/\ monitor.cur \in SeqToSet(active_trades')
              /\ trades'[monitor.cur] = trades[monitor.cur])]_vars
  /\ [][\A t \in SeqToSet(active_trades) :
          t \notin SeqToSet(active_trades') => t \in DOMAIN recordCount']_vars

\* the monitor has settled a trade, recorded it once and removed it, and
\* sleeps again
SettledAndRemoved ==
  /\ monitor.pc = "sleep"
  /\ \E t \in DOMAIN trades :
       /\ trades[t].status \in {"won", "lost"}
       /\ t \in DOMAIN recordCount
       /\ recordCount[t] = 1
       /\ t \notin SeqToSet(active_trades)
       /\ now - trades[t].start_time >= trades[t].duration + SettleBuffer

\* the monitor task is run as well, and the venue, asked again and again
\* about a placed trade, eventually reports its outcome
FairMonitor ==
  /\ FairSchedule
  /\ WF_vars(MonitorWake)
  /\ WF_vars(MonitorNotified)
  /\ WF_vars(MonitorMartingale)
  /\ SF_vars(MonitorResult /\ monitor'.pc = "notify")

\* the trade can become due within the time the clock covers
DueInTime(t) ==
  trades[t].start_time + trades[t].duration + SettleBuffer <= MaxTime

\* C31: while the pipeline keeps running and the venue eventually reports
\* an outcome for every placed trade, every trade of the in-flight set is
\* eventually recorded in the ledger and removed, and unless a further trade
\* is placed meanwhile concurrent_trades returns to zero.
InFlightEventuallySettled ==
  /\ \A t \in IntentIds :
       (/\ is_running
        /\ t \in SeqToSet(active_trades)
        /\ DueInTime(t))
         ~> (t \notin SeqToSet(active_trades) /\ t \in DOMAIN recordCount)
  /\ (/\ is_running
      /\ active_trades # <<>>
      /\ \A t \in SeqToSet(active_trades) : DueInTime(t))
       ~> \/ active_trades = <<>> /\ risk_metrics.concurrent_trades = 0
          \/ \E t \in SeqToSet(active_trades) : ~DueInTime(t)

\* every placed trade was settled, recorded and removed, and the count is
\* back at zero
AllSettledCountZero ==
  /\ is_running
  /\ active_trades = <<>>
  /\ risk_metrics.concurrent_trades = 0
  /\ DOMAIN trades # {}
  /\ \A t \in DOMAIN trades :
       trades[t].status \in {"won", "lost"} /\ t \in DOMAIN recordCount

\* the reference computation of C32: clamp, damp by 0.9^n, clamp again
ReferenceSize(amount, balance, n) ==
  LET lo == min_trade_amount
      hi == Min(max_trade_amount, (balance * risk_percentage) \div 100)
      clamped == Max(lo, Min(amount, hi))
  IN Max(lo, Min(Damp(clamped, n), hi))

\* C32: for every intent amount, balance and consecutive-loss count N,
\* calculate_position_size returns the value of the reference computation:
\* the amount clamped into [min_trade_amount, min(max_trade_amount,
\* risk_percentage x balance)], multiplied by 0.9^N, clamped again.
SizeMatchesReference ==
  (calc.op = "size" /\ calc.calls >= 1)
    => calc.size = ReferenceSize(calc.amount, calc.balance, calc.at)

\* ---------------------------------------------------------------------
\* SpecAsk: the recovery sequencer asked from outside, each call noted with
\* its arguments and its answer
\* ---------------------------------------------------------------------

\* get_next_martingale_amount(original_signal_id, current_balance), also
\* for an id that has no sequence
AskNextAmount ==
  \E sigId \in 1..MaxSignals, balance \in AdmitBalances :
    LET r == get_next_martingale_amount(martingale_sequences, sigId, balance)
    IN /\ martingale_sequences' = r.seqs
       /\ calc' = [op |-> "next", n |-> IF calc.op = "none" THEN 0 ELSE 1 - calc.n,
                   id |-> sigId, balance |-> balance, amount |-> r.amount,
                   answer |-> FALSE]
       /\ UNCHANGED <<risk_metrics, current_session, last_daily_reset, envVars,
                      pipeVars, lastAdmit, amountLog, forceStopped, numRecorded,
                      lastRecord>>

\* should_use_martingale(original_signal_id)
AskShouldUse ==
  \E sigId \in 1..MaxSignals :
    /\ calc' = [op |-> "use", n |-> IF calc.op = "none" THEN 0 ELSE 1 - calc.n,
                id |-> sigId, balance |-> 0, amount |-> NoAmount,
                answer |-> should_use_martingale(martingale_sequences,
                                                 risk_metrics, sigId)]
    /\ UNCHANGED <<riskVars, envVars, pipeVars, lastAdmit, amountLog,
                   forceStopped, numRecorded, lastRecord>>

NextAsk ==
  \/ CreateMartingaleSequence
  \/ AskNextAmount
  \/ AskShouldUse
  \/ RecordSequenceTrade
  \/ ForceStopTrading

SpecAsk == InitRisk /\ [][NextAsk]_vars

\* a step that is a call of get_next_martingale_amount
AskedNext == calc'.op = "next" /\ (calc.op = "none" \/ calc'.n # calc.n)

\* C33: get_next_martingale_amount never returns an amount above half of
\* the balance passed to it, and it returns none when the computed amount
\* exceeds half the balance, when the step ceiling is reached and when no
\* sequence exists for the id.
NextAmountWithinHalfBalance ==
  [][AskedNext =>
       LET id == calc'.id
           have == id \in DOMAIN martingale_sequences
           seq == martingale_sequences[id]
       IN /\ calc'.amount # NoAmount => calc'.amount * 2 <= calc'.balance
          /\ ~have => calc'.amount = NoAmount
          /\ (have /\ seq.current_step >= seq.max_steps)
               => calc'.amount = NoAmount
          /\ (have /\ seq.current_step < seq.max_steps
                /\ seq.base_amount * (martingale_multiplier ^ (seq.current_step + 1)) * 2
                     > calc'.balance)
               => calc'.amount = NoAmount]_vars

\* each of the three refusals has happened, and so has an answer
NextAmountRefusedAndGiven ==
  /\ calc.op = "next"
  /\ calc.amount # NoAmount
  /\ calc.amount * 2 <= calc.balance
  /\ \E k \in DOMAIN martingale_sequences :
       martingale_sequences[k].current_step >= max_martingale_steps
  /\ DOMAIN martingale_sequences # 1..MaxSignals

\* C34: when get_next_martingale_amount refuses (returns none), at the step
\* ceiling or because the amount exceeds half the balance, the sequence's
\* current_step and current_amount are what they were before the call.
RefusalLeavesSequenceAlone ==
  [][(/\ AskedNext
      /\ calc'.amount = NoAmount
      /\ calc'.id \in DOMAIN martingale_sequences)
       => /\ martingale_sequences'[calc'.id].current_step
               = martingale_sequences[calc'.id].current_step
          /\ martingale_sequences'[calc'.id].current_amount
               = martingale_sequences[calc'.id].current_amount]_vars

\* a step that is a call of should_use_martingale
AskedUse == calc'.op = "use" /\ (calc.op = "none" \/ calc'.n # calc.n)

\* C35: complete is terminal for a recovery sequence: once is_complete is
\* set, should_use_martingale answers false for its intent, and no later
\* call changes its current_step or current_amount or yields a further
\* recovery amount.
CompleteIsTerminal ==
  [][\A k \in DOMAIN martingale_sequences :
       martingale_sequences[k].is_complete
         => /\ k \in DOMAIN martingale_sequences'
            /\ martingale_sequences'[k].current_step
                 = martingale_sequences[k].current_step
            /\ martingale_sequences'[k].current_amount
                 = martingale_sequences[k].current_amount
            /\ (AskedUse /\ calc'.id = k) => ~calc'.answer
            /\ (AskedNext /\ calc'.id = k) => calc'.amount = NoAmount]_vars

\* ---------------------------------------------------------------------
\* Recovery chains in the pipeline
\* ---------------------------------------------------------------------

RECURSIVE Origin(_)
\* the signal-originated intent a recovery intent descends from
Origin(k) ==
  IF signals[k].original_signal_id = 0 THEN k
  ELSE Origin(signals[k].original_signal_id)

\* the recovery intents that descend from intent o
RecoveryChain(o) ==
  {k \in DOMAIN signals : signals[k].original_signal_id # 0 /\ Origin(k) = o}

NothingPlacedWhileDisabled ==
  [][\A c \in {"d", "p"} :
       (exec[c].pc = "asset" /\ exec'[c].pc = "place") => auto_trading_enabled]_vars

\* ---------------------------------------------------------------------
\* SpecHand: _execute_signal from the balance read to the Trade object, for
\* a fixed intent amount and balance, while the ledger counts losses
\* ---------------------------------------------------------------------
HandAmounts == {Dollar \div 2, 1 * Dollar, 2 * Dollar, 10 * Dollar,
                20 * Dollar, 150 * Dollar}
HandBalances == {1 * Dollar, 15 * Dollar, 40 * Dollar, 100 * Dollar,
                 1000 * Dollar, 10000 * Dollar}

InitHand ==
  /\ InitCommon
  /\ current_session = NewSession
  /\ calc \in [op : {"hand"}, amount : HandAmounts, balance : HandBalances,
                calls : {0}, allow : {FALSE}, handed : {0}]

\* can_place_trade, then calculate_position_size, then Trade(amount=...)
HandOver ==
  /\ Admit(calc.amount, calc.balance)
  /\ calc' = [calc EXCEPT
               !.calls = Min(calc.calls + 1, 2),
               !.allow = lastAdmit'.allow,
               !.handed = IF lastAdmit'.allow
                          THEN NewTrade(1, [asset |-> "EURUSD", direction |-> "call",
                                 amount |-> calculate_position_size(risk_metrics',
                                              calc.amount, calc.balance),
                                 duration |-> 60], now).amount
                          ELSE 0]
  /\ UNCHANGED <<current_session, martingale_sequences, envVars, pipeVars,
                 amountLog, forceStopped, numRecorded, lastRecord>>

NextHand ==
  \/ HandOver
  \/ SizeRecordLoss

SpecHand == InitHand /\ [][NextHand]_vars

\* C38: every Trade handed to the venue has an amount in
\* [min_trade_amount, max_trade_amount], and when the intent's amount is at
\* least min_trade_amount the Trade's amount is not above risk_percentage
\* percent of the balance read for the admission check.
HandedAmountWithinLimits ==
  (calc.op = "hand" /\ calc.calls >= 1 /\ calc.allow)
    => /\ min_trade_amount <= calc.handed
       /\ calc.handed <= max_trade_amount
       /\ calc.amount >= min_trade_amount
            => calc.handed * 100 <= calc.balance * risk_percentage

\* an admitted intent of at least the floor was handed over after a loss,
\* damped and within the share of the balance
HandedDampedWithinRisk ==
  /\ calc.op = "hand" /\ calc.calls >= 1 /\ calc.allow
  /\ risk_metrics.consecutive_losses >= 1
  /\ calc.amount >= min_trade_amount
  /\ calc.handed < calc.amount
  /\ min_trade_amount <= calc.handed
  /\ calc.handed * 100 <= calc.balance * risk_percentage

\* ---------------------------------------------------------------------
\* SpecDuration: _parse_duration called on a duration string
\* ---------------------------------------------------------------------
DurationNumbers ==
  {<<"0">>, <<"1">>, <<"5">>, <<"1", "5">>, <<"6", "0">>, <<"6", "1">>,
   <<"9", "0">>, <<"1", "2", "0">>}
DurationSuffixes ==
  {<<>>, <<"M">>, <<"H">>, <<" ", "M">>, <<" ", "H">>, <<"MINUTES">>,
   <<" ", "MINUTES">>, <<"hello">>}
DurationStrings ==
  {n \o u : n \in DurationNumbers, u \in DurationSuffixes}
    \cup {<<>>, <<"M">>, <<"M", "5">>, <<" ", "5", "M">>, <<"for", " ", "5">>}

InitDuration ==
  /\ InitCommon
  /\ current_session = NoSession
  /\ calc \in [op : {"duration"}, text : DurationStrings, done : {FALSE}, out : {0}]

ParseDuration ==
  /\ calc.op = "duration" /\ ~calc.done
  /\ calc' = [calc EXCEPT !.done = TRUE, !.out = parse_duration(calc.text)]
  /\ UNCHANGED <<riskVars, envVars, pipeVars, lastAdmit, amountLog,
                 forceStopped, numRecorded, lastRecord>>

NextDuration == ParseDuration

SpecDuration == InitDuration /\ [][NextDuration]_vars

\* C39: _parse_duration maps '<n>M' to 60*n seconds, '<n>H' to 3600*n
\* seconds, a bare number n above 60 to n seconds and a bare number n of at
\* most 60 to 60*n seconds.
DurationReadByUnit ==
  (calc.op = "duration" /\ calc.done) =>
    \A n \in DurationNumbers :
      LET v == DigitsToNat(n)
      IN /\ calc.text = n \o <<"M">> => calc.out = 60 * v
         /\ calc.text = n \o <<"H">> => calc.out = 3600 * v
         /\ (calc.text = n /\ v > 60) => calc.out = v
         /\ (calc.text = n /\ v <= 60) => calc.out = 60 * v

NoAmountMinutes == {<<"5">>, <<"3">>, <<"1", "5">>, <<"9", "0">>}

\* C40: for every inline text '<asset> <direction> <n>M' with an
\* allow-listed asset and no amount token, whatever the number of digits of
\* n >= 1, parse_message yields an intent with the amount
\* default_trade_amount and the duration 60 * n.
NoAmountTextGetsDefault ==
  \A a \in InlineAssets, d \in InlineDirections, n \in NoAmountMinutes :
    (/\ calc.op = "parse"
     /\ calc.done
     /\ calc.text = <<a, " ", d, " ">> \o n \o <<"M">>)
      => /\ calc.out.some
         /\ calc.out.amount = default_trade_amount
         /\ calc.out.duration = 60 * DigitsToNat(n)

====
